---------------------------- MODULE Spec2Model ----------------------------
(***************************************************************************)
(* A model of the banking transaction search server (src/src/server/       *)
(* server.py) and of its chat clients (src/src/clients/).                  *)
(*                                                                         *)
(* Python values are modelled as follows.                                  *)
(*   - A str is a sequence of one-character strings, so that lower(),      *)
(*     substring tests and emptiness are computed, not assumed.            *)
(*   - An Optional[T] is a sequence of length at most one: None is <<>>,   *)
(*     a present value v is <<v>>.                                         *)
(*   - A dict is a function from its keys (a record); {} is <<>>.          *)
(*   - A float amount is an integer (the code only passes amounts on).     *)
(***************************************************************************)
EXTENDS Integers, Sequences, FiniteSets, TLC

VARIABLES
    pc,       \* the caller's position: "idle" or "returned"
    fn,       \* the entry point that ran last
    args,     \* the arguments it ran with
    backend,  \* what the Elasticsearch client did during the run
    esLog,    \* the es.search requests issued during the run, in order
    ret,      \* the value returned to the caller
    raised,   \* TRUE when an exception reached the caller instead
    messages, \* the chat client's st.session_state.messages
    invoked,  \* the functions the chat client invoked during its last run
    conversation_history,  \* the chat bot's attribute of that name
    session_state,  \* the LLM client's st.session_state
    processed  \* the positions in llm_messages of the messages given to
               \* process_and_display_query, in the order of the calls

vars ==
    <<pc, fn, args, backend, esLog, ret, raised, messages, invoked,
      conversation_history, session_state, processed>>

---------------------------------------------------------------------------
(* Bounds of the model. *)

\* At most this many fields of a Filter Model differ from their defaults.
MaxSetFields == 3

\* The backend returns at most this many hits.
MaxHits == 2

\* A tool call of the language model carries at most this many arguments.
MaxToolArgs == 2

\* A text to classify is made of at most this many words.
MaxWords == 2

\* A chat session holds at most this many messages.
MaxMessages == 2

\* A text to extract parameters from is made of at most this many phrases.
MaxPhrases == 2

\* The history of the LLM client holds at most this many messages.
MaxLlmMessages == 4

---------------------------------------------------------------------------
(* Python values. *)

None == <<>>

Some(v) == <<v>>

IsNone(o) == Len(o) = 0

Val(o) == o[1]

\* `if x:` for an Optional[str] or an Optional[List]: not None and not empty.
Truthy(o) == Len(o) = 1 /\ Len(o[1]) > 0

UpperCase ==
    <<"A", "B", "C", "D", "E", "F", "G", "H", "I", "J", "K", "L", "M",
      "N", "O", "P", "Q", "R", "S", "T", "U", "V", "W", "X", "Y", "Z">>

LowerCase ==
    <<"a", "b", "c", "d", "e", "f", "g", "h", "i", "j", "k", "l", "m",
      "n", "o", "p", "q", "r", "s", "t", "u", "v", "w", "x", "y", "z">>

LowerChar(c) ==
    IF \E i \in 1..26 : UpperCase[i] = c
    THEN LowerCase[CHOOSE i \in 1..26 : UpperCase[i] = c]
    ELSE c

\* str.lower()
lower(s) == [i \in 1..Len(s) |-> LowerChar(s[i])]

\* Python's `sub in text` for strings.
Contains(text, sub) ==
    \E i \in 0..(Len(text) - Len(sub)) : SubSeq(text, i + 1, i + Len(sub)) = sub

Digits == <<"0", "1", "2", "3", "4", "5", "6", "7", "8", "9">>

IsDigit(c) == \E i \in 1..10 : Digits[i] = c

DigitValue(c) == (CHOOSE i \in 1..10 : Digits[i] = c) - 1

\* The number a non-empty string of decimal digits denotes.
RECURSIVE ParseDigits(_)
ParseDigits(s) ==
    IF Len(s) = 0 THEN 0
    ELSE 10 * ParseDigits(SubSeq(s, 1, Len(s) - 1)) + DigitValue(s[Len(s)])

IsDigits(s) == Len(s) > 0 /\ \A i \in 1..Len(s) : IsDigit(s[i])

\* A dict with the one key k when the condition holds, {} otherwise.
DictIf(cond, k, v) == IF cond THEN k :> v ELSE <<>>

---------------------------------------------------------------------------
(* String data used as inputs. *)

s_coffee == <<"c", "o", "f", "f", "e", "e">>

s_Starbucks == <<"S", "t", "a", "r", "b", "u", "c", "k", "s">>

s_dining == <<"d", "i", "n", "i", "n", "g">>

s_CA == <<"C", "A">>

s_Checking == <<"C", "h", "e", "c", "k", "i", "n", "g">>

s_DEBIT == <<"D", "E", "B", "I", "T">>

s_2024_01_01 == <<"2", "0", "2", "4", "-", "0", "1", "-", "0", "1">>

s_2024_01_31 == <<"2", "0", "2", "4", "-", "0", "1", "-", "3", "1">>

s_empty == <<>>

s_abc == <<"a", "b", "c">>

s_50 == <<"5", "0">>

s_yesterday == <<"y", "e", "s", "t", "e", "r", "d", "a", "y">>

---------------------------------------------------------------------------
(* server.py: configuration and the Filter Model. *)

ES_INDEX == "banking_transactions"

DefaultLimit == 10

FilterFields ==
    <<"description", "merchant", "category", "location", "amount_min",
      "amount_max", "date_from", "date_to", "account_type",
      "transaction_type", "tags">>

ParamFields == FilterFields \o <<"limit">>

\* TransactionSearchParams(): every field None, limit 10.
TransactionSearchParams ==
    [description |-> None, merchant |-> None, category |-> None,
     location |-> None, amount_min |-> None, amount_max |-> None,
     date_from |-> None, date_to |-> None, account_type |-> None,
     transaction_type |-> None, tags |-> None,
     limit |-> Some(DefaultLimit)]


\* TransactionSearchParams(**kwargs): a field that is no key of kwargs has
\* its default, lines 51-62.
FromDict(kwargs) ==
    [f \in DOMAIN TransactionSearchParams |->
        IF f \in DOMAIN kwargs THEN Some(kwargs[f])
        ELSE TransactionSearchParams[f]]

---------------------------------------------------------------------------
(* server.py: search_transactions, the query compiler (lines 73-156). *)

DescriptionClause(params) ==
    IF Truthy(params.description)
    THEN << [multi_match |->
                [query |-> Val(params.description),
                 fields |-> <<"description^2", "memo", "reference">>,
                 fuzziness |-> "AUTO",
                 operator |-> "and"]] >>
    ELSE <<>>

MerchantClause(params) ==
    IF Truthy(params.merchant)
    THEN << [match |->
                [merchant |->
                    [query |-> Val(params.merchant), fuzziness |-> "AUTO"]]] >>
    ELSE <<>>

CategoryClause(params) ==
    IF Truthy(params.category)
    THEN << [match |->
                [category |->
                    [query |-> Val(params.category), fuzziness |-> "AUTO"]]] >>
    ELSE <<>>

LocationClause(params) ==
    IF Truthy(params.location)
    THEN << [multi_match |->
                [query |-> Val(params.location),
                 fields |-> <<"location.city", "location.state",
                              "location.address", "location.country">>,
                 fuzziness |-> "AUTO"]] >>
    ELSE <<>>

AccountTypeClause(params) ==
    IF Truthy(params.account_type)
    THEN << [term |->
                ("account_type.keyword" :> lower(Val(params.account_type)))] >>
    ELSE <<>>

TransactionTypeClause(params) ==
    IF Truthy(params.transaction_type)
    THEN << [term |->
                ("transaction_type.keyword" :>
                    lower(Val(params.transaction_type)))] >>
    ELSE <<>>

\* range_query with `if params.amount_min:` for `is not None`.
AmountRangeQueryTruthy(params) ==
    DictIf(~IsNone(params.amount_min) /\ Val(params.amount_min) # 0,
           "gte", Val(params.amount_min))
    @@ DictIf(~IsNone(params.amount_max) /\ Val(params.amount_max) # 0,
              "lte", Val(params.amount_max))

\* range_query of lines 129-133: a bound that is not None is included.
AmountRangeQuery(params) ==
    DictIf(~IsNone(params.amount_min), "gte", Val(params.amount_min))
    @@ DictIf(~IsNone(params.amount_max), "lte", Val(params.amount_max))

AmountClause(params) ==
    IF ~IsNone(params.amount_min) \/ ~IsNone(params.amount_max)
    THEN << [range |-> [amount |-> AmountRangeQuery(params)]] >>
    ELSE <<>>

\* range_query of lines 139-143: a bound that is truthy is included.
DateRangeQuery(params) ==
    DictIf(Truthy(params.date_from), "gte", Val(params.date_from))
    @@ DictIf(Truthy(params.date_to), "lte", Val(params.date_to))

DateClause(params) ==
    IF Truthy(params.date_from) \/ Truthy(params.date_to)
    THEN << [range |-> [transaction_date |-> DateRangeQuery(params)]] >>
    ELSE <<>>

TagsClause(params) ==
    IF Truthy(params.tags)
    THEN << [terms |-> ("tags.keyword" :> Val(params.tags))] >>
    ELSE <<>>

\* The must list without the location clause.
MustClausesNoLocation(params) ==
    DescriptionClause(params) \o MerchantClause(params)
    \o CategoryClause(params)
    \o AccountTypeClause(params) \o TransactionTypeClause(params)
    \o AmountClause(params) \o DateClause(params) \o TagsClause(params)

\* query["bool"]["must"] after line 152.
MustClauses(params) ==
    DescriptionClause(params) \o MerchantClause(params)
    \o CategoryClause(params) \o LocationClause(params)
    \o AccountTypeClause(params) \o TransactionTypeClause(params)
    \o AmountClause(params) \o DateClause(params) \o TagsClause(params)

MatchAll == [match_all |-> <<>>]

\* The query without lines 155-156.
SearchQueryNoMatchAll(params) == [bool |-> [must |-> MustClauses(params)]]

\* The query after line 156.
SearchQuery(params) ==
    IF Len(MustClauses(params)) = 0
    THEN MatchAll
    ELSE [bool |-> [must |-> MustClauses(params)]]

SearchSort == << ("transaction_date" :> [order |-> "desc"]) >>

\* params.limit or 10
SearchSize(params) ==
    IF IsNone(params.limit) \/ Val(params.limit) = 0
    THEN DefaultLimit
    ELSE Val(params.limit)

\* The arguments of es.search at lines 159-166.
SearchRequest(params) ==
    [index |-> ES_INDEX,
     body |-> [query |-> SearchQuery(params),
               sort |-> SearchSort,
               size |-> SearchSize(params)]]

---------------------------------------------------------------------------
(* The Elasticsearch client, as the handlers see it: get_es_client() and  *)
(* es.search() either return or raise; what they do is an input.          *)

\* The i-th document the backend returns.
Hit(i) ==
    ("_id" :> i) @@ ("_score" :> 1)
    @@ ("_source" :> [merchant |-> s_Starbucks, amount |-> 0 - (5 * i)])

HitList(n) == [i \in 1..n |-> Hit(i)]

\* A well-formed search response: at most MaxHits hits, out of a total that
\* is at least the number of hits.
SearchResponses ==
    { [hits |-> [total |-> [value |-> n + more], hits |-> HitList(n)]] :
        n \in 0..MaxHits, more \in {0, 1} }

ErrorMessages == {"ConnectionError(Connection refused)",
                  "BadRequestError(400, 'search_phase_execution_exception')"}

\* Client construction raises; es.search raises; es.search returns.
SearchBackends ==
    { [client |-> "raise", search |-> "none", msg |-> m, response |-> <<>>] :
        m \in ErrorMessages }
    \cup
    { [client |-> "ok", search |-> "raise", msg |-> m, response |-> <<>>] :
        m \in ErrorMessages }
    \cup
    { [client |-> "ok", search |-> "return", msg |-> "", response |-> r] :
        r \in SearchResponses \cup {<<>>} }

---------------------------------------------------------------------------
(* server.py: search_transactions (lines 64-192). *)

\* transaction of lines 171-173.
Transaction(hit) ==
    ("_id" :> hit["_id"]) @@ ("_score" :> hit["_score"]) @@ hit["_source"]

\* params.dict(exclude_none=True)
\* params.dict() leaving out every falsy value, not only None.
DictExcludeFalsy(params) ==
    [f \in {g \in DOMAIN params :
                /\ ~IsNone(params[g])
                /\ IF g \in {"amount_min", "amount_max", "limit"}
                   THEN Val(params[g]) # 0
                   ELSE Len(Val(params[g])) > 0} |-> Val(params[f])]

DictExcludeNone(params) ==
    [f \in {g \in DOMAIN params : ~IsNone(params[g])} |-> Val(params[f])]

\* The envelope of lines 176-185.
SearchEnvelope(params, response) ==
    [success |-> TRUE,
     total_hits |-> response.hits.total.value,
     returned_count |-> Len(response.hits.hits),
     transactions |->
        [i \in 1..Len(response.hits.hits) |->
            Transaction(response.hits.hits[i])],
     query_info |->
        [search_params |-> DictExcludeNone(params),
         elasticsearch_query |-> SearchQuery(params)]]

\* The try block calling es.search again when it raised.
SearchTryRetry(params, be) ==
    IF be.client = "raise"
    THEN [end |-> "raise", value |-> be.msg, calls |-> <<>>]
    ELSE IF be.search = "raise"
    THEN [end |-> "raise", value |-> be.msg,
          calls |-> <<SearchRequest(params), SearchRequest(params)>>]
    ELSE IF "hits" \notin DOMAIN be.response
    THEN [end |-> "raise", value |-> "'hits'",
          calls |-> <<SearchRequest(params)>>]
    ELSE [end |-> "return", value |-> SearchEnvelope(params, be.response),
          calls |-> <<SearchRequest(params)>>]

\* The try block of lines 70-185: how it ends ("return" with a value or
\* "raise" with str(e)) and the es.search calls it issued.
SearchTry(params, be) ==
    IF be.client = "raise"
    THEN [end |-> "raise", value |-> be.msg, calls |-> <<>>]
    ELSE IF be.search = "raise"
    THEN [end |-> "raise", value |-> be.msg,
          calls |-> <<SearchRequest(params)>>]
    ELSE IF "hits" \notin DOMAIN be.response
    THEN [end |-> "raise", value |-> "'hits'",
          calls |-> <<SearchRequest(params)>>]
    ELSE [end |-> "return", value |-> SearchEnvelope(params, be.response),
          calls |-> <<SearchRequest(params)>>]

\* No except clause: the exception reaches the caller.
SearchExceptMissing(t) ==
    [raised |-> TRUE, value |-> <<>>, calls |-> t.calls]

\* except Exception as e, lines 187-192.
SearchExcept(t) ==
    [raised |-> FALSE,
     value |-> [success |-> FALSE, error |-> t.value, transactions |-> <<>>],
     calls |-> t.calls]

search_transactions(params, be) ==
    LET t == SearchTry(params, be)
    IN  IF t.end = "raise"
        THEN SearchExcept(t)
        ELSE [raised |-> FALSE, value |-> t.value, calls |-> t.calls]

---------------------------------------------------------------------------
(* server.py: get_transaction_summary (lines 194-305).  An aggregate value *)
(* returned by the backend is an integer number of thousandths, so that    *)
(* round(x, 2) has something to round.                                     *)

\* round(x, 2) on thousandths: to the nearest multiple of 10, ties to even.
Round2(x) ==
    LET q == x \div 10
        r == x % 10
    IN  IF r < 5 THEN 10 * q
        ELSE IF r > 5 THEN 10 * (q + 1)
        ELSE IF q % 2 = 0 THEN 10 * q
        ELSE 10 * (q + 1)

\* `x or 0` without the `or 0`.
OrZeroDropped(o) == o

\* `x or 0` for an Optional number: never None.
OrZero(o) == IF IsNone(o) \/ Val(o) = 0 THEN Some(0) ELSE o

\* round(None, 2) raises TypeError: whether one of the two rounded totals
\* of lines 271-272 is None.
RoundRaises(aggregations) ==
    \/ IsNone(OrZero(aggregations.total_amount.value))
    \/ IsNone(OrZero(aggregations.avg_amount.value))

SummaryDateRangeQuery(a) ==
    DictIf(Truthy(a.date_from), "gte", Val(a.date_from))
    @@ DictIf(Truthy(a.date_to), "lte", Val(a.date_to))

\* One range clause for each date bound instead of one for the pair.
SummaryDateClausePerBound(a) ==
    (IF Truthy(a.date_from)
     THEN << [range |-> [transaction_date |-> [gte |-> Val(a.date_from)]]] >>
     ELSE <<>>)
    \o (IF Truthy(a.date_to)
        THEN << [range |-> [transaction_date |-> [lte |-> Val(a.date_to)]]] >>
        ELSE <<>>)

SummaryDateClause(a) ==
    IF Truthy(a.date_from) \/ Truthy(a.date_to)
    THEN << [range |-> [transaction_date |-> SummaryDateRangeQuery(a)]] >>
    ELSE <<>>

SummaryCategoryClause(a) ==
    IF Truthy(a.category)
    THEN << [match |-> [category |-> Val(a.category)]] >>
    ELSE <<>>

SummaryAccountTypeClause(a) ==
    IF Truthy(a.account_type)
    THEN << [term |-> ("account_type.keyword" :> lower(Val(a.account_type)))] >>
    ELSE <<>>

SummaryMustClauses(a) ==
    SummaryDateClause(a) \o SummaryCategoryClause(a)
    \o SummaryAccountTypeClause(a)

\* The query after line 232.
SummaryQuery(a) ==
    IF Len(SummaryMustClauses(a)) = 0
    THEN MatchAll
    ELSE [bool |-> [must |-> SummaryMustClauses(a)]]

\* aggs of lines 235-254.
SummaryAggs ==
    [total_amount |-> [sum |-> [field |-> "amount"]],
     avg_amount |-> [avg |-> [field |-> "amount"]],
     transaction_count |-> [value_count |-> [field |-> "amount"]],
     by_category |->
        [terms |-> [field |-> "category.keyword", size |-> 20],
         aggs |-> [total_spent |-> [sum |-> [field |-> "amount"]]]],
     by_account |->
        [terms |-> [field |-> "account_type.keyword"],
         aggs |-> [total_amount |-> [sum |-> [field |-> "amount"]]]],
     by_month |->
        [date_histogram |->
            [field |-> "transaction_date", calendar_interval |-> "month"],
         aggs |-> [monthly_total |-> [sum |-> [field |-> "amount"]]]]]

\* The arguments of es.search at lines 256-263.
SummaryRequest(a) ==
    [index |-> ES_INDEX,
     body |-> [query |-> SummaryQuery(a), size |-> 0, aggs |-> SummaryAggs]]

\* The summary of lines 270-298.
SummaryOf(aggregations) ==
    [total_amount |-> Round2(Val(OrZero(aggregations.total_amount.value))),
     average_amount |-> Round2(Val(OrZero(aggregations.avg_amount.value))),
     transaction_count |-> aggregations.transaction_count.value,
     spending_by_category |->
        [i \in 1..Len(aggregations.by_category.buckets) |->
            LET bucket == aggregations.by_category.buckets[i]
            IN  [category |-> bucket.key,
                 total_spent |-> Round2(bucket.total_spent.value),
                 transaction_count |-> bucket.doc_count]],
     spending_by_account |->
        [i \in 1..Len(aggregations.by_account.buckets) |->
            LET bucket == aggregations.by_account.buckets[i]
            IN  [account_type |-> bucket.key,
                 total_amount |-> Round2(bucket.total_amount.value),
                 transaction_count |-> bucket.doc_count]],
     monthly_spending |->
        [i \in 1..Len(aggregations.by_month.buckets) |->
            LET bucket == aggregations.by_month.buckets[i]
            IN  [month |-> bucket.key_as_string,
                 total_spent |-> Round2(bucket.monthly_total.value),
                 transaction_count |-> bucket.doc_count]]]

\* The try block of lines 205-299.
SummaryTry(a, be) ==
    IF be.client = "raise"
    THEN [end |-> "raise", value |-> be.msg, calls |-> <<>>]
    ELSE IF be.search = "raise"
    THEN [end |-> "raise", value |-> be.msg, calls |-> <<SummaryRequest(a)>>]
    ELSE IF "aggregations" \notin DOMAIN be.response
    THEN [end |-> "raise", value |-> "'aggregations'",
          calls |-> <<SummaryRequest(a)>>]
    ELSE IF RoundRaises(be.response.aggregations)
    THEN [end |-> "raise",
          value |-> "type NoneType doesn't define __round__ method",
          calls |-> <<SummaryRequest(a)>>]
    ELSE [end |-> "return",
          value |-> [success |-> TRUE,
                     summary |-> SummaryOf(be.response.aggregations)],
          calls |-> <<SummaryRequest(a)>>]

\* except Exception as e, lines 301-305.
SummaryExcept(t) ==
    [raised |-> FALSE,
     value |-> [success |-> FALSE, error |-> t.value],
     calls |-> t.calls]

get_transaction_summary(a, be) ==
    LET t == SummaryTry(a, be)
    IN  IF t.end = "raise"
        THEN SummaryExcept(t)
        ELSE [raised |-> FALSE, value |-> t.value, calls |-> t.calls]

\* What the backend aggregates over n matching documents: over none, the
\* sum is 0 and the average is null.
Aggregations(n) ==
    LET total == 0 - (12345 * n)
        buckets(name) ==
            IF n = 0 THEN <<>>
            ELSE << [key |-> s_dining, key_as_string |-> "2024-01-01",
                     doc_count |-> n] @@ (name :> [value |-> total]) >>
    IN  [total_amount |-> [value |-> Some(total)],
         avg_amount |-> [value |-> IF n = 0 THEN None ELSE Some(0 - 12345)],
         transaction_count |-> [value |-> n],
         by_category |-> [buckets |-> buckets("total_spent")],
         by_account |-> [buckets |-> buckets("total_amount")],
         by_month |-> [buckets |-> buckets("monthly_total")]]

SummaryResponses == { [aggregations |-> Aggregations(n)] : n \in 0..MaxHits }

SummaryBackends ==
    { [client |-> "raise", search |-> "none", msg |-> m, response |-> <<>>] :
        m \in ErrorMessages }
    \cup
    { [client |-> "ok", search |-> "raise", msg |-> m, response |-> <<>>] :
        m \in ErrorMessages }
    \cup
    { [client |-> "ok", search |-> "return", msg |-> "", response |-> r] :
        r \in SummaryResponses \cup {<<>>} }

---------------------------------------------------------------------------
(* chat_client_llm_openai.py: execute_tool_call (lines 226-245).  A JSON   *)
(* value is a record with one field naming its kind: [str |-> s],          *)
(* [num |-> n] or [null |-> TRUE].  The arguments string of a tool call is *)
(* [json |-> d] when it is the JSON text of the object d, and [text |-> s] *)
(* when it is no JSON at all.                                              *)

JsonStr(s) == [str |-> s]

JsonNum(n) == [num |-> n]

JsonNull == [null |-> TRUE]

\* json.loads: the parsed object, or JSONDecodeError.
JsonLoads(s) ==
    IF "json" \in DOMAIN s
    THEN [ok |-> TRUE, value |-> s.json]
    ELSE [ok |-> FALSE, value |-> <<>>]

FloatFields == {"amount_min", "amount_max"}

IntFields == {"limit"}

\* pydantic accepts the JSON value j for field f of TransactionSearchParams:
\* null for any field, a string for an Optional[str], a number or a string
\* of digits for an Optional[float] or Optional[int].
ValidField(f, j) ==
    \/ "null" \in DOMAIN j
    \/ f \in FloatFields \cup IntFields /\ "num" \in DOMAIN j
    \/ f \in FloatFields \cup IntFields /\ "str" \in DOMAIN j /\ IsDigits(j.str)
    \/ f \notin FloatFields \cup IntFields /\ f # "tags" /\ "str" \in DOMAIN j

\* The field value pydantic makes of an accepted JSON value.
Coerce(f, j) ==
    IF "null" \in DOMAIN j THEN None
    ELSE IF "num" \in DOMAIN j THEN Some(j.num)
    ELSE IF f \in FloatFields \cup IntFields THEN Some(ParseDigits(j.str))
    ELSE Some(j.str)

\* TransactionSearchParams(**arguments): the Filter Model, or a
\* ValidationError when one argument does not fit its field's type; an
\* argument that names no field is ignored.
ValidateParams(arguments) ==
    IF \A f \in DOMAIN arguments \cap DOMAIN TransactionSearchParams :
            ValidField(f, arguments[f])
    THEN [ok |-> TRUE,
          params |->
            [f \in DOMAIN TransactionSearchParams |->
                IF f \in DOMAIN arguments
                THEN Coerce(f, arguments[f])
                ELSE TransactionSearchParams[f]]]
    ELSE [ok |-> FALSE, params |-> <<>>]

SummaryParamNames == {"date_from", "date_to", "category", "account_type"}

\* get_transaction_summary(**arguments) for string or null arguments.
SummaryKwargs(arguments) ==
    [f \in SummaryParamNames |->
        IF f \in DOMAIN arguments /\ "str" \in DOMAIN arguments[f]
        THEN Some(arguments[f].str)
        ELSE None]

execute_tool_call(tool_call, be) ==
    LET function_name == tool_call.function.name
        arguments == JsonLoads(tool_call.function.arguments)
    IN  IF ~arguments.ok
        THEN [raised |-> TRUE, value |-> <<>>, calls |-> <<>>]
        ELSE IF function_name = "search_transactions"
        THEN LET search_params == ValidateParams(arguments.value)
             IN  IF search_params.ok
                 THEN search_transactions(search_params.params, be)
                 ELSE [raised |-> FALSE,
                       value |-> [error |->
                            "Error executing search_transactions: ValidationError"],
                       calls |-> <<>>]
        ELSE IF function_name = "get_transaction_summary"
        THEN IF DOMAIN arguments.value \subseteq SummaryParamNames
             THEN get_transaction_summary(SummaryKwargs(arguments.value), be)
             ELSE [raised |-> FALSE,
                   value |-> [error |->
                        "Error executing get_transaction_summary: TypeError"],
                   calls |-> <<>>]
        ELSE [raised |-> FALSE,
              value |-> [error |-> "Unknown function"],
              calls |-> <<>>]

---------------------------------------------------------------------------
(* chat_client.py: TransactionChatBot.determine_query_type (lines        *)
(* 172-185).                                                              *)

\* The list of lines 176-179 without "spending".
SummaryKeywordsNoSpending ==
    << <<"s", "u", "m", "m", "a", "r", "y">>,
      <<"t", "o", "t", "a", "l">>,
      <<"s", "u", "m">>,
      <<"h", "o", "w", " ", "m", "u", "c", "h">>,
      <<"s", "p", "e", "n", "t">>,
      <<"b", "r", "e", "a", "k", "d", "o", "w", "n">>,
      <<"a", "n", "a", "l", "y", "s", "i", "s">>,
      <<"s", "t", "a", "t", "i", "s", "t", "i", "c", "s">>,
      <<"s", "t", "a", "t", "s">>,
      <<"o", "v", "e", "r", "v", "i", "e", "w">> >>

summary_keywords ==
    << <<"s", "u", "m", "m", "a", "r", "y">>,
      <<"t", "o", "t", "a", "l">>,
      <<"s", "u", "m">>,
      <<"h", "o", "w", " ", "m", "u", "c", "h">>,
      <<"s", "p", "e", "n", "d", "i", "n", "g">>,
      <<"s", "p", "e", "n", "t">>,
      <<"b", "r", "e", "a", "k", "d", "o", "w", "n">>,
      <<"a", "n", "a", "l", "y", "s", "i", "s">>,
      <<"s", "t", "a", "t", "i", "s", "t", "i", "c", "s">>,
      <<"s", "t", "a", "t", "s">>,
      <<"o", "v", "e", "r", "v", "i", "e", "w">> >>

\* The loop of lines 181-185 without lower-casing the query first.
DetermineQueryTypeNoLower(query) ==
    IF \E i \in 1..Len(summary_keywords) : Contains(query, summary_keywords[i])
    THEN "summary"
    ELSE "search"

determine_query_type(query) ==
    LET query_lower == lower(query)
    IN  IF \E i \in 1..Len(summary_keywords) :
                Contains(query_lower, summary_keywords[i])
        THEN "summary"
        ELSE "search"

---------------------------------------------------------------------------
(* chat_client.py: TransactionChatBot.parse_natural_language (lines       *)
(* 54-170).  today is datetime.now() as [year, month, day].               *)

IsLower(c) == \E i \in 1..26 : LowerCase[i] = c

IsUpper(c) == \E i \in 1..26 : UpperCase[i] = c

UpperChar(c) ==
    IF IsLower(c) THEN UpperCase[CHOOSE i \in 1..26 : LowerCase[i] = c]
    ELSE c

\* str.title(): a letter that follows a letter is lower-cased, any other
\* letter is upper-cased.
title(s) ==
    [i \in 1..Len(s) |->
        IF i > 1 /\ (IsLower(s[i - 1]) \/ IsUpper(s[i - 1]))
        THEN LowerChar(s[i])
        ELSE UpperChar(s[i])]

\* The first element of the list that occurs in the text, as an Optional.
FirstIn(list, text) ==
    IF \E i \in 1..Len(list) : Contains(text, list[i])
    THEN Some(list[CHOOSE i \in 1..Len(list) :
                    /\ Contains(text, list[i])
                    /\ \A j \in 1..(i - 1) : ~Contains(text, list[j])])
    ELSE None

merchants ==
    << <<"s", "t", "a", "r", "b", "u", "c", "k", "s">>,
      <<"m", "c", "d", "o", "n", "a", "l", "d", "'", "s">>,
      <<"w", "a", "l", "m", "a", "r", "t">>,
      <<"t", "a", "r", "g", "e", "t">>,
      <<"a", "m", "a", "z", "o", "n">>,
      <<"s", "h", "e", "l", "l">>,
      <<"c", "h", "e", "v", "r", "o", "n">>,
      <<"s", "a", "f", "e", "w", "a", "y">>,
      <<"w", "h", "o", "l", "e", " ", "f", "o", "o", "d", "s">>,
      <<"h", "o", "m", "e", " ", "d", "e", "p", "o", "t">>,
      <<"b", "e", "s", "t", " ", "b", "u", "y">>,
      <<"a", "p", "p", "l", "e">>,
      <<"n", "e", "t", "f", "l", "i", "x">>,
      <<"s", "p", "o", "t", "i", "f", "y">>,
      <<"u", "b", "e", "r">>,
      <<"l", "y", "f", "t">>,
      <<"a", "i", "r", "b", "n", "b">>,
      <<"m", "a", "r", "r", "i", "o", "t", "t">>,
      <<"o", "l", "i", "v", "e", " ", "g", "a", "r", "d", "e", "n">>,
      <<"p", "i", "z", "z", "a", " ", "h", "u", "t">>,
      <<"s", "u", "b", "w", "a", "y">>,
      <<"c", "h", "i", "p", "o", "t", "l", "e">>,
      <<"c", "o", "s", "t", "c", "o">>,
      <<"c", "v", "s">>,
      <<"w", "a", "l", "g", "r", "e", "e", "n", "s">> >>

ExtractMerchant(query_lower) ==
    LET merchant == FirstIn(merchants, query_lower)
    IN  DictIf(~IsNone(merchant), "merchant", title(Val(merchant)))

\* The items of the categories dict, in insertion order.
categories ==
    <<[keyword |-> <<"c", "o", "f", "f", "e", "e">>,
       category |-> <<"d", "i", "n", "i", "n", "g">>],
      [keyword |-> <<"f", "o", "o", "d">>,
       category |-> <<"d", "i", "n", "i", "n", "g">>],
      [keyword |-> <<"r", "e", "s", "t", "a", "u", "r", "a", "n", "t">>,
       category |-> <<"d", "i", "n", "i", "n", "g">>],
      [keyword |-> <<"d", "i", "n", "i", "n", "g">>,
       category |-> <<"d", "i", "n", "i", "n", "g">>],
      [keyword |-> <<"g", "r", "o", "c", "e", "r", "y">>,
       category |-> <<"g", "r", "o", "c", "e", "r", "i", "e", "s">>],
      [keyword |-> <<"g", "r", "o", "c", "e", "r", "i", "e", "s">>,
       category |-> <<"g", "r", "o", "c", "e", "r", "i", "e", "s">>],
      [keyword |-> <<"s", "u", "p", "e", "r", "m", "a", "r", "k", "e",
                     "t">>,
       category |-> <<"g", "r", "o", "c", "e", "r", "i", "e", "s">>],
      [keyword |-> <<"g", "a", "s">>,
       category |-> <<"g", "a", "s">>],
      [keyword |-> <<"f", "u", "e", "l">>,
       category |-> <<"g", "a", "s">>],
      [keyword |-> <<"g", "a", "s", "o", "l", "i", "n", "e">>,
       category |-> <<"g", "a", "s">>],
      [keyword |-> <<"s", "h", "o", "p", "p", "i", "n", "g">>,
       category |-> <<"s", "h", "o", "p", "p", "i", "n", "g">>],
      [keyword |-> <<"r", "e", "t", "a", "i", "l">>,
       category |-> <<"s", "h", "o", "p", "p", "i", "n", "g">>],
      [keyword |-> <<"e", "n", "t", "e", "r", "t", "a", "i", "n", "m", "e",
                     "n", "t">>,
       category |-> <<"e", "n", "t", "e", "r", "t", "a", "i", "n", "m", "e",
                      "n", "t">>],
      [keyword |-> <<"m", "o", "v", "i", "e">>,
       category |-> <<"e", "n", "t", "e", "r", "t", "a", "i", "n", "m", "e",
                      "n", "t">>],
      [keyword |-> <<"s", "t", "r", "e", "a", "m", "i", "n", "g">>,
       category |-> <<"e", "n", "t", "e", "r", "t", "a", "i", "n", "m", "e",
                      "n", "t">>],
      [keyword |-> <<"u", "t", "i", "l", "i", "t", "y">>,
       category |-> <<"u", "t", "i", "l", "i", "t", "i", "e", "s">>],
      [keyword |-> <<"u", "t", "i", "l", "i", "t", "i", "e", "s">>,
       category |-> <<"u", "t", "i", "l", "i", "t", "i", "e", "s">>],
      [keyword |-> <<"e", "l", "e", "c", "t", "r", "i", "c">>,
       category |-> <<"u", "t", "i", "l", "i", "t", "i", "e", "s">>],
      [keyword |-> <<"t", "r", "a", "n", "s", "p", "o", "r", "t">>,
       category |-> <<"t", "r", "a", "n", "s", "p", "o", "r", "t", "a", "t",
                      "i", "o", "n">>],
      [keyword |-> <<"t", "r", "a", "n", "s", "p", "o", "r", "t", "a", "t",
                     "i", "o", "n">>,
       category |-> <<"t", "r", "a", "n", "s", "p", "o", "r", "t", "a", "t",
                      "i", "o", "n">>],
      [keyword |-> <<"u", "b", "e", "r">>,
       category |-> <<"t", "r", "a", "n", "s", "p", "o", "r", "t", "a", "t",
                      "i", "o", "n">>],
      [keyword |-> <<"t", "r", "a", "v", "e", "l">>,
       category |-> <<"t", "r", "a", "v", "e", "l">>],
      [keyword |-> <<"h", "o", "t", "e", "l">>,
       category |-> <<"t", "r", "a", "v", "e", "l">>],
      [keyword |-> <<"f", "l", "i", "g", "h", "t">>,
       category |-> <<"t", "r", "a", "v", "e", "l">>],
      [keyword |-> <<"h", "e", "a", "l", "t", "h", "c", "a", "r", "e">>,
       category |-> <<"h", "e", "a", "l", "t", "h", "c", "a", "r", "e">>],
      [keyword |-> <<"m", "e", "d", "i", "c", "a", "l">>,
       category |-> <<"h", "e", "a", "l", "t", "h", "c", "a", "r", "e">>],
      [keyword |-> <<"d", "o", "c", "t", "o", "r">>,
       category |-> <<"h", "e", "a", "l", "t", "h", "c", "a", "r", "e">>],
      [keyword |-> <<"i", "n", "s", "u", "r", "a", "n", "c", "e">>,
       category |-> <<"i", "n", "s", "u", "r", "a", "n", "c", "e">>],
      [keyword |-> <<"p", "h", "o", "n", "e">>,
       category |-> <<"p", "h", "o", "n", "e">>],
      [keyword |-> <<"i", "n", "t", "e", "r", "n", "e", "t">>,
       category |-> <<"i", "n", "t", "e", "r", "n", "e", "t">>]>>

\* The keyword at which the loop of lines 87-90 breaks, as an Optional.
CategoryKeyword(query_lower) ==
    LET hits == {i \in 1..Len(categories) :
                    Contains(query_lower, categories[i].keyword)}
    IN  IF hits = {} THEN None
        ELSE Some(categories[CHOOSE i \in hits : \A j \in hits : i <= j]
                    .keyword)

\* The loop of lines 87-90 going on to the last keyword in the text.
ExtractCategoryLastKeyword(query_lower) ==
    LET hits == {i \in 1..Len(categories) :
                    Contains(query_lower, categories[i].keyword)}
    IN  DictIf(hits # {}, "category",
               categories[CHOOSE i \in hits : \A j \in hits : j <= i].category)

ExtractCategory(query_lower) ==
    LET hits == {i \in 1..Len(categories) :
                    Contains(query_lower, categories[i].keyword)}
    IN  DictIf(hits # {}, "category",
               categories[CHOOSE i \in hits : \A j \in hits : i <= j].category)

locations ==
    << <<"s", "a", "n", " ", "f", "r", "a", "n", "c", "i", "s", "c", "o">>,
      <<"n", "e", "w", " ", "y", "o", "r", "k">>,
      <<"l", "o", "s", " ", "a", "n", "g", "e", "l", "e", "s">>,
      <<"c", "h", "i", "c", "a", "g", "o">>,
      <<"s", "e", "a", "t", "t", "l", "e">>,
      <<"a", "u", "s", "t", "i", "n">>,
      <<"b", "o", "s", "t", "o", "n">>,
      <<"d", "e", "n", "v", "e", "r">>,
      <<"c", "a", "l", "i", "f", "o", "r", "n", "i", "a">>,
      <<"c", "a">>,
      <<"n", "e", "w", " ", "y", "o", "r", "k">>,
      <<"n", "y">>,
      <<"t", "e", "x", "a", "s">>,
      <<"t", "x">>,
      <<"w", "a", "s", "h", "i", "n", "g", "t", "o", "n">>,
      <<"w", "a">> >>

ExtractLocation(query_lower) ==
    LET location == FirstIn(locations, query_lower)
    IN  DictIf(~IsNone(location), "location", title(Val(location)))

\* The amount patterns, as the regular expressions are written in the code.
amount_patterns ==
    << <<"o", "v", "e", "r", " ", "\\", "$", "?", "(", "\\", "d", "+", ")">>,
      <<"a", "b", "o", "v", "e", " ", "\\", "$", "?", "(", "\\", "d", "+",
        ")">>,
      <<"m", "o", "r", "e", " ", "t", "h", "a", "n", " ", "\\", "$", "?",
        "(", "\\", "d", "+", ")">>,
      <<"u", "n", "d", "e", "r", " ", "\\", "$", "?", "(", "\\", "d", "+",
        ")">>,
      <<"b", "e", "l", "o", "w", " ", "\\", "$", "?", "(", "\\", "d", "+",
        ")">>,
      <<"l", "e", "s", "s", " ", "t", "h", "a", "n", " ", "\\", "$", "?",
        "(", "\\", "d", "+", ")">>,
      <<"b", "e", "t", "w", "e", "e", "n", " ", "\\", "$", "?", "(", "\\",
        "d", "+", ")", " ", "a", "n", "d", " ", "\\", "$", "?", "(", "\\",
        "d", "+", ")">>,
      <<"\\", "$", "?", "(", "\\", "d", "+", ")", " ", "t", "o", " ", "\\",
        "$", "?", "(", "\\", "d", "+", ")">> >>

StartsWith(s, prefix) ==
    Len(prefix) <= Len(s) /\ SubSeq(s, 1, Len(prefix)) = prefix

\* re.compile for the patterns above: a sequence of elements, each an
\* optional dollar sign, a group of one or more digits, or a literal
\* character.
RECURSIVE Compile(_)
Compile(pattern) ==
    IF Len(pattern) = 0 THEN <<>>
    ELSE IF StartsWith(pattern, <<"\\", "$", "?">>)
    THEN <<[kind |-> "optional", char |-> "$"]>>
         \o Compile(SubSeq(pattern, 4, Len(pattern)))
    ELSE IF StartsWith(pattern, <<"(", "\\", "d", "+", ")">>)
    THEN <<[kind |-> "digits", char |-> ""]>>
         \o Compile(SubSeq(pattern, 6, Len(pattern)))
    ELSE <<[kind |-> "literal", char |-> pattern[1]]>>
         \o Compile(Tail(pattern))

\* The number of digits of the text from position pos on.
RECURSIVE DigitRun(_, _)
DigitRun(text, pos) ==
    IF pos <= Len(text) /\ IsDigit(text[pos])
    THEN 1 + DigitRun(text, pos + 1)
    ELSE 0

\* The match of the compiled pattern at position pos of the text: None, or
\* the groups of the match.  An optional element is tried present, then
\* absent; a digits group is tried longest first.
RECURSIVE MatchAt(_, _, _, _)
MatchAt(text, pos, compiled, groups) ==
    IF Len(compiled) = 0 THEN Some(groups)
    ELSE
        LET head == compiled[1]
            rest == Tail(compiled)
        IN  IF head.kind = "literal"
            THEN IF pos <= Len(text) /\ text[pos] = head.char
                 THEN MatchAt(text, pos + 1, rest, groups)
                 ELSE None
            ELSE IF head.kind = "optional"
            THEN LET present ==
                         IF pos <= Len(text) /\ text[pos] = head.char
                         THEN MatchAt(text, pos + 1, rest, groups)
                         ELSE None
                 IN  IF ~IsNone(present) THEN present
                     ELSE MatchAt(text, pos, rest, groups)
            ELSE LET Try(k) ==
                         MatchAt(text, pos + k, rest,
                                 Append(groups, SubSeq(text, pos, pos + k - 1)))
                     lengths ==
                         {k \in 1..DigitRun(text, pos) : ~IsNone(Try(k))}
                 IN  IF lengths = {} THEN None
                     ELSE Try(CHOOSE k \in lengths : \A l \in lengths : l <= k)

\* re.match: the match at the start of the text only.
SearchAtStart(pattern, text) ==
    MatchAt(text, 1, Compile(pattern), <<>>)

\* re.search: the match at the leftmost position that has one.
Search(pattern, text) ==
    LET compiled == Compile(pattern)
        starts == {pos \in 1..(Len(text) + 1) :
                      ~IsNone(MatchAt(text, pos, compiled, <<>>))}
    IN  IF starts = {} THEN None
        ELSE MatchAt(text, CHOOSE pos \in starts : \A p \in starts : pos <= p,
                     compiled, <<>>)

\* Lines 114-120 with the two groups of a range assigned the other way.
AmountsOfSwapped(pattern, groups) ==
    IF \/ Contains(pattern, <<"o", "v", "e", "r">>)
       \/ Contains(pattern, <<"a", "b", "o", "v", "e">>)
       \/ Contains(pattern, <<"m", "o", "r", "e", " ", "t", "h", "a", "n">>)
    THEN "amount_min" :> ParseDigits(groups[1])
    ELSE IF \/ Contains(pattern, <<"u", "n", "d", "e", "r">>)
            \/ Contains(pattern, <<"b", "e", "l", "o", "w">>)
            \/ Contains(pattern, <<"l", "e", "s", "s", " ", "t", "h", "a",
                                   "n">>)
    THEN "amount_max" :> ParseDigits(groups[1])
    ELSE IF \/ Contains(pattern, <<"b", "e", "t", "w", "e", "e", "n">>)
            \/ Contains(pattern, <<"t", "o">>)
    THEN ("amount_min" :> ParseDigits(groups[2]))
         @@ ("amount_max" :> ParseDigits(groups[1]))
    ELSE <<>>

\* Lines 114-120 for the pattern that matched; float() of a group of digits
\* is the number it denotes.
AmountsOf(pattern, groups) ==
    IF \/ Contains(pattern, <<"o", "v", "e", "r">>)
       \/ Contains(pattern, <<"a", "b", "o", "v", "e">>)
       \/ Contains(pattern, <<"m", "o", "r", "e", " ", "t", "h", "a", "n">>)
    THEN "amount_min" :> ParseDigits(groups[1])
    ELSE IF \/ Contains(pattern, <<"u", "n", "d", "e", "r">>)
            \/ Contains(pattern, <<"b", "e", "l", "o", "w">>)
            \/ Contains(pattern, <<"l", "e", "s", "s", " ", "t", "h", "a",
                                   "n">>)
    THEN "amount_max" :> ParseDigits(groups[1])
    ELSE IF \/ Contains(pattern, <<"b", "e", "t", "w", "e", "e", "n">>)
            \/ Contains(pattern, <<"t", "o">>)
    THEN ("amount_min" :> ParseDigits(groups[1]))
         @@ ("amount_max" :> ParseDigits(groups[2]))
    ELSE <<>>

\* The loop of lines 111-121 with the last matching pattern applied.
ExtractAmountsLastPattern(query_lower) ==
    LET matching == {i \in 1..Len(amount_patterns) :
                        ~IsNone(Search(amount_patterns[i], query_lower))}
    IN  IF matching = {} THEN <<>>
        ELSE LET last == CHOOSE i \in matching : \A j \in matching : j <= i
             IN  AmountsOf(amount_patterns[last],
                           Val(Search(amount_patterns[last], query_lower)))

ExtractAmounts(query_lower) ==
    LET matching == {i \in 1..Len(amount_patterns) :
                        ~IsNone(Search(amount_patterns[i], query_lower))}
    IN  IF matching = {} THEN <<>>
        ELSE LET first == CHOOSE i \in matching : \A j \in matching : i <= j
             IN  AmountsOf(amount_patterns[first],
                           Val(Search(amount_patterns[first], query_lower)))

IsLeap(year) == year % 4 = 0 /\ (year % 100 # 0 \/ year % 400 = 0)

DaysInMonth(year, month) ==
    IF month = 2 THEN (IF IsLeap(year) THEN 29 ELSE 28)
    ELSE IF month \in {4, 6, 9, 11} THEN 30
    ELSE 31

\* The number of days before January 1 of the year.
DaysBeforeYear(year) ==
    LET y == year - 1
    IN  y * 365 + y \div 4 - y \div 100 + y \div 400

\* The number of days of the year before the first day of the month (month
\* 13 standing for the end of the year).
RECURSIVE DaysBeforeMonth(_, _)
DaysBeforeMonth(year, month) ==
    IF month = 1 THEN 0
    ELSE DaysBeforeMonth(year, month - 1) + DaysInMonth(year, month - 1)

\* date.toordinal()
ToOrdinal(date) ==
    DaysBeforeYear(date.year) + DaysBeforeMonth(date.year, date.month)
    + date.day

\* date.fromordinal(), for the ordinals of the two years before `date`.
FromOrdinal(n, date) ==
    LET year == CHOOSE y \in (date.year - 2)..date.year :
                    DaysBeforeYear(y) < n /\ n <= DaysBeforeYear(y + 1)
        inYear == n - DaysBeforeYear(year)
        month == CHOOSE m \in 1..12 :
                    /\ DaysBeforeMonth(year, m) < inYear
                    /\ inYear <= DaysBeforeMonth(year, m + 1)
    IN  [year |-> year, month |-> month,
         day |-> inYear - DaysBeforeMonth(year, month)]

\* today - timedelta(days=days)
MinusDays(date, days) == FromOrdinal(ToOrdinal(date) - days, date)

\* The decimal digits of a natural number.
RECURSIVE str(_)
str(n) ==
    IF n < 10 THEN <<Digits[n + 1]>>
    ELSE str(n \div 10) \o <<Digits[(n % 10) + 1]>>

\* The format specification 02d.
Format02d(n) == IF n < 10 THEN <<"0">> \o str(n) ELSE str(n)

\* strftime("%Y-%m-%d"), for a year of four digits.
strftime(date) ==
    str(date.year) \o <<"-">> \o Format02d(date.month) \o <<"-">>
    \o Format02d(date.day)

\* Lines 124-137: the relative periods.
\* The chain of lines 126-137 with the test for a month before that for a
\* week.
ExtractPeriodMonthFirst(query_lower, today) ==
    IF \/ Contains(query_lower, <<"l", "a", "s", "t", " ", "m", "o", "n",
                                  "t", "h">>)
       \/ Contains(query_lower, <<"p", "a", "s", "t", " ", "m", "o", "n",
                                  "t", "h">>)
    THEN "date_from" :> strftime(MinusDays(today, 30))
    ELSE IF \/ Contains(query_lower, <<"l", "a", "s", "t", " ", "w", "e",
                                       "e", "k">>)
            \/ Contains(query_lower, <<"p", "a", "s", "t", " ", "w", "e",
                                       "e", "k">>)
    THEN "date_from" :> strftime(MinusDays(today, 7))
    ELSE IF \/ Contains(query_lower, <<"l", "a", "s", "t", " ", "3", " ",
                                       "m", "o", "n", "t", "h", "s">>)
            \/ Contains(query_lower, <<"p", "a", "s", "t", " ", "3", " ",
                                       "m", "o", "n", "t", "h", "s">>)
    THEN "date_from" :> strftime(MinusDays(today, 90))
    ELSE IF \/ Contains(query_lower, <<"l", "a", "s", "t", " ", "y", "e",
                                       "a", "r">>)
            \/ Contains(query_lower, <<"p", "a", "s", "t", " ", "y", "e",
                                       "a", "r">>)
    THEN "date_from" :> strftime(MinusDays(today, 365))
    ELSE IF Contains(query_lower, <<"t", "h", "i", "s", " ", "y", "e", "a",
                                    "r">>)
    THEN "date_from" :> (str(today.year) \o <<"-", "0", "1", "-", "0",
                                              "1">>)
    ELSE IF Contains(query_lower, <<"t", "h", "i", "s", " ", "m", "o", "n",
                                    "t", "h">>)
    THEN "date_from" :>
            (str(today.year) \o <<"-">> \o Format02d(today.month)
             \o <<"-", "0", "1">>)
    ELSE <<>>

ExtractPeriod(query_lower, today) ==
    IF \/ Contains(query_lower, <<"l", "a", "s", "t", " ", "w", "e", "e",
                                  "k">>)
       \/ Contains(query_lower, <<"p", "a", "s", "t", " ", "w", "e", "e",
                                  "k">>)
    THEN "date_from" :> strftime(MinusDays(today, 7))
    ELSE IF \/ Contains(query_lower, <<"l", "a", "s", "t", " ", "m", "o",
                                       "n", "t", "h">>)
            \/ Contains(query_lower, <<"p", "a", "s", "t", " ", "m", "o",
                                       "n", "t", "h">>)
    THEN "date_from" :> strftime(MinusDays(today, 30))
    ELSE IF \/ Contains(query_lower, <<"l", "a", "s", "t", " ", "3", " ",
                                       "m", "o", "n", "t", "h", "s">>)
            \/ Contains(query_lower, <<"p", "a", "s", "t", " ", "3", " ",
                                       "m", "o", "n", "t", "h", "s">>)
    THEN "date_from" :> strftime(MinusDays(today, 90))
    ELSE IF \/ Contains(query_lower, <<"l", "a", "s", "t", " ", "y", "e",
                                       "a", "r">>)
            \/ Contains(query_lower, <<"p", "a", "s", "t", " ", "y", "e",
                                       "a", "r">>)
    THEN "date_from" :> strftime(MinusDays(today, 365))
    ELSE IF Contains(query_lower, <<"t", "h", "i", "s", " ", "y", "e", "a",
                                    "r">>)
    THEN "date_from" :> (str(today.year) \o <<"-", "0", "1", "-", "0", "1">>)
    ELSE IF Contains(query_lower, <<"t", "h", "i", "s", " ", "m", "o", "n",
                                    "t", "h">>)
    THEN "date_from" :>
            (str(today.year) \o <<"-">> \o Format02d(today.month)
             \o <<"-", "0", "1">>)
    ELSE <<>>

\* The items of the months dict, in insertion order.
months ==
    <<[month_name |-> <<"j", "a", "n", "u", "a", "r", "y">>,
       month_num |-> <<"0", "1">>],
      [month_name |-> <<"f", "e", "b", "r", "u", "a", "r", "y">>,
       month_num |-> <<"0", "2">>],
      [month_name |-> <<"m", "a", "r", "c", "h">>,
       month_num |-> <<"0", "3">>],
      [month_name |-> <<"a", "p", "r", "i", "l">>,
       month_num |-> <<"0", "4">>],
      [month_name |-> <<"m", "a", "y">>,
       month_num |-> <<"0", "5">>],
      [month_name |-> <<"j", "u", "n", "e">>,
       month_num |-> <<"0", "6">>],
      [month_name |-> <<"j", "u", "l", "y">>,
       month_num |-> <<"0", "7">>],
      [month_name |-> <<"a", "u", "g", "u", "s", "t">>,
       month_num |-> <<"0", "8">>],
      [month_name |-> <<"s", "e", "p", "t", "e", "m", "b", "e", "r">>,
       month_num |-> <<"0", "9">>],
      [month_name |-> <<"o", "c", "t", "o", "b", "e", "r">>,
       month_num |-> <<"1", "0">>],
      [month_name |-> <<"n", "o", "v", "e", "m", "b", "e", "r">>,
       month_num |-> <<"1", "1">>],
      [month_name |-> <<"d", "e", "c", "e", "m", "b", "e", "r">>,
       month_num |-> <<"1", "2">>]>>

\* Lines 139-154 with the year decremented also for the current month.
ExtractMonthOrCurrent(query_lower, today) ==
    LET named == {i \in 1..Len(months) :
                     Contains(query_lower, months[i].month_name)}
    IN  IF named = {} THEN <<>>
        ELSE
            LET first == CHOOSE i \in named : \A j \in named : i <= j
                month_name == months[first].month_name
                month_num == months[first].month_num
                year ==
                    IF /\ Contains(query_lower, <<"l", "a", "s", "t">>)
                       /\ Contains(query_lower, month_name)
                       /\ ParseDigits(month_num) >= today.month
                    THEN today.year - 1
                    ELSE today.year
                prefix == str(year) \o <<"-">> \o month_num
            IN  ("date_from" :> (prefix \o <<"-", "0", "1">>))
                @@ ("date_to" :> (prefix \o <<"-", "3", "1">>))

\* Lines 139-154: a month name.
ExtractMonth(query_lower, today) ==
    LET named == {i \in 1..Len(months) :
                     Contains(query_lower, months[i].month_name)}
    IN  IF named = {} THEN <<>>
        ELSE
            LET first == CHOOSE i \in named : \A j \in named : i <= j
                month_name == months[first].month_name
                month_num == months[first].month_num
                year ==
                    IF /\ Contains(query_lower, <<"l", "a", "s", "t">>)
                       /\ Contains(query_lower, month_name)
                       /\ ParseDigits(month_num) > today.month
                    THEN today.year - 1
                    ELSE today.year
                prefix == str(year) \o <<"-">> \o month_num
            IN  ("date_from" :> (prefix \o <<"-", "0", "1">>))
                @@ ("date_to" :> (prefix \o <<"-", "3", "1">>))

\* Lines 156-162 with the three tests in the opposite order.
ExtractAccountTypeCreditFirst(query_lower) ==
    IF Contains(query_lower, <<"c", "r", "e", "d", "i", "t">>)
    THEN "account_type" :> <<"c", "r", "e", "d", "i", "t">>
    ELSE IF Contains(query_lower, <<"s", "a", "v", "i", "n", "g", "s">>)
    THEN "account_type" :> <<"s", "a", "v", "i", "n", "g", "s">>
    ELSE IF Contains(query_lower, <<"c", "h", "e", "c", "k", "i", "n",
                                    "g">>)
    THEN "account_type" :> <<"c", "h", "e", "c", "k", "i", "n", "g">>
    ELSE <<>>

\* Lines 156-162.
ExtractAccountType(query_lower) ==
    IF Contains(query_lower, <<"c", "h", "e", "c", "k", "i", "n", "g">>)
    THEN "account_type" :> <<"c", "h", "e", "c", "k", "i", "n", "g">>
    ELSE IF Contains(query_lower, <<"s", "a", "v", "i", "n", "g", "s">>)
    THEN "account_type" :> <<"s", "a", "v", "i", "n", "g", "s">>
    ELSE IF Contains(query_lower, <<"c", "r", "e", "d", "i", "t">>)
    THEN "account_type" :> <<"c", "r", "e", "d", "i", "t">>
    ELSE <<>>

AllLimit == 100

\* Lines 164-168 without the else branch.
ExtractLimitNoDefault(query_lower) ==
    DictIf(\/ Contains(query_lower, <<"a", "l", "l">>)
           \/ Contains(query_lower, <<"e", "v", "e", "r", "y", "t", "h",
                                      "i", "n", "g">>),
           "limit", AllLimit)

\* Lines 164-168 without the test for everything.
ExtractLimitAllOnly(query_lower) ==
    IF Contains(query_lower, <<"a", "l", "l">>)
    THEN "limit" :> AllLimit
    ELSE "limit" :> DefaultLimit

\* Lines 164-168.
ExtractLimit(query_lower) ==
    IF \/ Contains(query_lower, <<"a", "l", "l">>)
       \/ Contains(query_lower,
                   <<"e", "v", "e", "r", "y", "t", "h", "i", "n", "g">>)
    THEN "limit" :> AllLimit
    ELSE "limit" :> DefaultLimit

\* The extractions with the relative period assigned after the month.
ParsePeriodAfterMonth(query, today) ==
    LET query_lower == lower(query)
    IN  ExtractLimit(query_lower)
        @@ ExtractAccountType(query_lower)
        @@ ExtractPeriod(query_lower, today)
        @@ ExtractMonth(query_lower, today)
        @@ ExtractAmounts(query_lower)
        @@ ExtractLocation(query_lower)
        @@ ExtractCategory(query_lower)
        @@ ExtractMerchant(query_lower)

\* The extractions applied to the query as it is written, line 56 left out.
ParseNoLower(query, today) ==
    LET query_lower == query
    IN  ExtractLimit(query_lower)
        @@ ExtractAccountType(query_lower)
        @@ ExtractMonth(query_lower, today)
        @@ ExtractPeriod(query_lower, today)
        @@ ExtractAmounts(query_lower)
        @@ ExtractLocation(query_lower)
        @@ ExtractCategory(query_lower)
        @@ ExtractMerchant(query_lower)

\* The extractions in the order of the code: a later assignment to a key
\* replaces an earlier one.
parse_natural_language(query, today) ==
    LET query_lower == lower(query)
    IN  ExtractLimit(query_lower)
        @@ ExtractAccountType(query_lower)
        @@ ExtractMonth(query_lower, today)
        @@ ExtractPeriod(query_lower, today)
        @@ ExtractAmounts(query_lower)
        @@ ExtractLocation(query_lower)
        @@ ExtractCategory(query_lower)
        @@ ExtractMerchant(query_lower)

---------------------------------------------------------------------------
(* chat_client.py: the formatters (lines 187-244) and main (lines          *)
(* 246-402).  A formatted response is modelled by its wording and the      *)
(* values it prints; the charts and tables drawn on the page are left out. *)

\* The example queries of the sidebar, lines 272-282.
examples ==
    << <<"S", "h", "o", "w", " ", "m", "e", " ", "a", "l", "l", " ", "S",
        "t", "a", "r", "b", "u", "c", "k", "s", " ", "p", "u", "r", "c",
        "h", "a", "s", "e", "s">>,
      <<"F", "i", "n", "d", " ", "g", "r", "o", "c", "e", "r", "y", " ",
        "s", "p", "e", "n", "d", "i", "n", "g", " ", "o", "v", "e", "r",
        " ", "$", "5", "0">>,
      <<"W", "h", "a", "t", " ", "d", "i", "d", " ", "I", " ", "s", "p",
        "e", "n", "d", " ", "o", "n", " ", "g", "a", "s", " ", "l", "a",
        "s", "t", " ", "m", "o", "n", "t", "h", "?">>,
      <<"S", "h", "o", "w", " ", "t", "r", "a", "n", "s", "a", "c", "t",
        "i", "o", "n", "s", " ", "i", "n", " ", "S", "a", "n", " ", "F",
        "r", "a", "n", "c", "i", "s", "c", "o">>,
      <<"G", "i", "v", "e", " ", "m", "e", " ", "a", " ", "s", "p", "e",
        "n", "d", "i", "n", "g", " ", "s", "u", "m", "m", "a", "r", "y",
        " ", "f", "o", "r", " ", "t", "h", "i", "s", " ", "y", "e", "a",
        "r">>,
      <<"F", "i", "n", "d", " ", "a", "l", "l", " ", "A", "m", "a", "z",
        "o", "n", " ", "p", "u", "r", "c", "h", "a", "s", "e", "s", " ",
        "b", "e", "t", "w", "e", "e", "n", " ", "$", "2", "0", " ", "a",
        "n", "d", " ", "$", "1", "0", "0">>,
      <<"S", "h", "o", "w", " ", "d", "i", "n", "i", "n", "g", " ", "e",
        "x", "p", "e", "n", "s", "e", "s", " ", "f", "r", "o", "m", " ",
        "l", "a", "s", "t", " ", "w", "e", "e", "k">>,
      <<"W", "h", "a", "t", " ", "a", "r", "e", " ", "m", "y", " ", "u",
        "t", "i", "l", "i", "t", "y", " ", "p", "a", "y", "m", "e", "n",
        "t", "s", "?">>,
      <<"F", "i", "n", "d", " ", "a", "l", "l", " ", "c", "r", "e", "d",
        "i", "t", " ", "c", "a", "r", "d", " ", "t", "r", "a", "n", "s",
        "a", "c", "t", "i", "o", "n", "s", " ", "o", "v", "e", "r", " ",
        "$", "2", "0", "0">> >>

\* results.get(key, default)
Get(results, key, default) ==
    IF key \in DOMAIN results THEN results[key] ELSE default

format_search_results(results) ==
    IF ~Get(results, "success", FALSE)
    THEN [text |-> "Error", error |-> Get(results, "error", "Unknown error")]
    ELSE IF Len(Get(results, "transactions", <<>>)) = 0
    THEN [text |-> "No transactions found matching your criteria."]
    ELSE [text |-> "Found transactions",
          total_hits |-> Get(results, "total_hits", 0),
          showing |-> Len(results.transactions)]

abs(x) == IF x < 0 THEN 0 - x ELSE x

format_summary_results(results) ==
    IF ~Get(results, "success", FALSE)
    THEN [text |-> "Error", error |-> Get(results, "error", "Unknown error")]
    ELSE LET summary == Get(results, "summary", <<>>)
         IN  [text |-> "Transaction Summary",
              transaction_count |-> Get(summary, "transaction_count", 0),
              total_amount |-> abs(Get(summary, "total_amount", 0)),
              average_amount |-> abs(Get(summary, "average_amount", 0))]

\* The extracted parameters as typed values: a number for an amount or the
\* limit, a string for every other field.
TypedParams(params) ==
    [f \in DOMAIN params |->
        IF f \in FloatFields \cup IntFields
        THEN JsonNum(params[f])
        ELSE JsonStr(params[f])]

\* The summary branch forwarding every extracted parameter.
ChatSummaryForwardAll(params, be) ==
    LET summary_params == params
        results ==
            get_transaction_summary(SummaryKwargs(TypedParams(summary_params)),
                                    be)
    IN  [raised |-> results.raised,
         response |-> IF results.raised THEN <<>>
                      ELSE format_summary_results(results.value),
         invoked |-> <<[fn |-> "get_transaction_summary",
                        args |-> summary_params]>>,
         calls |-> results.calls]

\* The summary branch, lines 311-326: what it invokes and the response.
ChatSummary(params, be) ==
    LET summary_params ==
            [f \in DOMAIN params \cap SummaryParamNames |-> params[f]]
        results ==
            get_transaction_summary(SummaryKwargs(TypedParams(summary_params)),
                                    be)
    IN  [raised |-> results.raised,
         response |-> IF results.raised THEN <<>>
                      ELSE format_summary_results(results.value),
         invoked |-> <<[fn |-> "get_transaction_summary",
                        args |-> summary_params]>>,
         calls |-> results.calls]

\* The search branch, lines 358-367.
ChatSearch(params, be) ==
    LET search_params == ValidateParams(TypedParams(params))
        results == search_transactions(search_params.params, be)
    IN  IF ~search_params.ok
        THEN [raised |-> TRUE, response |-> <<>>, invoked |-> <<>>,
              calls |-> <<>>]
        ELSE [raised |-> results.raised,
              response |-> IF results.raised THEN <<>>
                           ELSE format_search_results(results.value),
              invoked |-> <<[fn |-> "search_transactions",
                             args |-> search_params.params]>>,
              calls |-> results.calls]

\* The branches of line 311 with the search branch taken for every intent.
ChatDispatchAlwaysSearch(query_type, params, be) ==
    ChatSearch(params, be)

\* if query_type == "summary": ... else: ..., lines 311-385.
ChatDispatch(query_type, params, be) ==
    IF query_type = "summary"
    THEN ChatSummary(params, be)
    ELSE ChatSearch(params, be)

\* The functions main invokes for a prompt, in order: the classifier
\* (line 308), the extractor (line 313 or 360), then those of the branch.
ChatInvoked(prompt, branch) ==
    <<[fn |-> "determine_query_type", args |-> prompt],
      [fn |-> "parse_natural_language", args |-> prompt]>>
    \o branch.invoked

\* The response of the try statement of lines 304-393: that of the branch,
\* or the error message of the except clause.
ChatResponse(branch) ==
    IF branch.raised
    THEN [text |-> "Error processing query"]
    ELSE branch.response

---------------------------------------------------------------------------
(* The callers' inputs. *)

FieldValues(f) ==
    CASE f = "description" -> {Some(s_empty), Some(s_coffee)}
      [] f = "merchant" -> {Some(s_empty), Some(s_Starbucks)}
      [] f = "category" -> {Some(s_empty), Some(s_dining)}
      [] f = "location" -> {Some(s_empty), Some(s_CA)}
      [] f = "amount_min" -> {Some(0), Some(100)}
      [] f = "amount_max" -> {Some(0), Some(20)}
      [] f = "date_from" -> {Some(s_empty), Some(s_2024_01_01)}
      [] f = "date_to" -> {Some(s_empty), Some(s_2024_01_31)}
      [] f = "account_type" -> {Some(s_empty), Some(s_Checking)}
      [] f = "transaction_type" -> {Some(s_empty), Some(s_DEBIT)}
      [] f = "tags" -> {Some(<<>>), Some(<<s_coffee>>)}
      [] f = "limit" -> {None, Some(0), Some(5)}

\* The records got from p by giving at most k of the fields new values.
RECURSIVE Fill(_, _, _)
Fill(p, fields, k) ==
    IF Len(fields) = 0 \/ k = 0
    THEN {p}
    ELSE Fill(p, Tail(fields), k)
         \cup UNION { Fill([p EXCEPT ![Head(fields)] = v], Tail(fields), k - 1) :
                        v \in FieldValues(Head(fields)) }

\* TransactionSearchParams(**kwargs) with at most MaxSetFields arguments.
FilterModels == Fill(TransactionSearchParams, ParamFields, MaxSetFields)

SummaryValues(f) ==
    CASE f = "date_from" -> {None, Some(s_empty), Some(s_2024_01_01)}
      [] f = "date_to" -> {None, Some(s_empty), Some(s_2024_01_31)}
      [] f = "category" -> {None, Some(s_empty), Some(s_dining)}
      [] f = "account_type" -> {None, Some(s_empty), Some(s_Checking)}

\* The keyword arguments of get_transaction_summary, None when not passed.
SummaryArgs ==
    [date_from : SummaryValues("date_from"),
     date_to : SummaryValues("date_to"),
     category : SummaryValues("category"),
     account_type : SummaryValues("account_type")]

\* The values the language model may give an argument of a tool.
ToolArgValues(function_name, key) ==
    CASE key = "merchant" -> {JsonStr(s_Starbucks)}
      [] key = "category" -> {JsonStr(s_dining), JsonNull}
      [] key = "account_type" -> {JsonStr(s_Checking)}
      [] key = "amount_min" -> {JsonNum(20), JsonStr(s_50), JsonStr(s_abc)}
      [] key = "amount_max" -> {JsonNum(100), JsonStr(s_abc)}
      [] key = "date_from" -> {JsonStr(s_2024_01_01), JsonStr(s_yesterday)}
      [] key = "date_to" -> {JsonStr(s_2024_01_31)}
      [] key = "limit" -> {JsonNum(5)}

ToolArgKeys(function_name) ==
    IF function_name = "search_transactions"
    THEN <<"merchant", "category", "account_type", "amount_min",
           "amount_max", "date_from", "date_to", "limit">>
    ELSE <<"date_from", "date_to", "category", "account_type", "merchant">>

\* The JSON objects got from d by adding at most k of the keys.
RECURSIVE ToolArgs(_, _, _, _)
ToolArgs(function_name, d, keys, k) ==
    IF Len(keys) = 0 \/ k = 0
    THEN {d}
    ELSE ToolArgs(function_name, d, Tail(keys), k)
         \cup UNION { ToolArgs(function_name, d @@ (Head(keys) :> v),
                               Tail(keys), k - 1) :
                        v \in ToolArgValues(function_name, Head(keys)) }

ToolNames == {"search_transactions", "get_transaction_summary", "health_check"}

\* The tool calls the language model may return.
ToolCalls ==
    { [function |-> [name |-> n, arguments |-> a]] :
        n \in ToolNames,
        a \in {[text |-> "not json"]} }
    \cup
    UNION { { [function |-> [name |-> n, arguments |-> [json |-> d]]] :
                d \in ToolArgs(n, <<>>, ToolArgKeys(n), MaxToolArgs) } :
            n \in ToolNames }

ToolBackends(tool_call) ==
    IF tool_call.function.name = "get_transaction_summary"
    THEN SummaryBackends
    ELSE SearchBackends

\* The words joined by single spaces.
RECURSIVE JoinWords(_)
JoinWords(words) ==
    IF Len(words) = 0 THEN <<>>
    ELSE IF Len(words) = 1 THEN words[1]
    ELSE words[1] \o <<" ">> \o JoinWords(Tail(words))

\* The texts of at most n words of the vocabulary.
TextsOf(vocabulary, n) ==
    { JoinWords(ws) : ws \in UNION { [1..k -> vocabulary] : k \in 0..n } }

\* The keywords, "how" and "much" apart, and words that are no keyword: in
\* another case, or a keyword but for a letter.
ClassifyWords ==
    {summary_keywords[i] : i \in 1..Len(summary_keywords)}
    \cup
    {<<"h", "o", "w">>,
     <<"m", "u", "c", "h">>,
     <<"S", "u", "m", "m", "a", "r", "y">>,
     <<"T", "O", "T", "A", "L">>,
     <<"H", "o", "w">>,
     <<"c", "o", "n", "s", "u", "m", "e">>,
     <<"s", "t", "a", "t", "i", "s", "t", "i", "c">>,
     <<"s", "p", "e", "n", "d">>,
     <<"s", "h", "o", "w">>,
     <<"m", "y">>,
     <<>>}

ClassifyTexts == TextsOf(ClassifyWords, MaxWords)

\* The days on which the chat client runs.
Todays ==
    {[year |-> 2024, month |-> 3, day |-> 5],
     [year |-> 2024, month |-> 1, day |-> 3],
     [year |-> 2025, month |-> 12, day |-> 31]}

\* What the user types into the chat input: the example queries and
\* others. Line 295 goes on with a prompt only when it is not empty.
ChatPrompts ==
    {examples[i] : i \in 1..Len(examples)}
    \cup
    {<<" ">>,
     <<"T", "o", "t", "a", "l", " ", "s", "p", "e", "n", "t", " ", "a", "t",
       " ", "W", "a", "l", "m", "a", "r", "t", " ", "o", "v", "e", "r", " ",
       "$", "5", "0", ",", " ", "a", "l", "l", " ", "o", "f", " ", "i",
       "t">>,
     <<"H", "o", "w", " ", "m", "u", "c", "h", " ", "a", "t", " ", "M", "c",
       "D", "o", "n", "a", "l", "d", "'", "s", " ", "u", "n", "d", "e", "r",
       " ", "3", "0", " ", "i", "n", " ", "M", "a", "r", "c", "h">>,
     <<"t", "o", "t", "a", "l", " ", "f", "o", "r", " ", "l", "a", "s", "t",
       " ", "d", "e", "c", "e", "m", "b", "e", "r", " ", "w", "h", "o", "l",
       "e", " ", "f", "o", "o", "d", "s">>,
     <<"p", "a", "s", "t", " ", "3", " ", "m", "o", "n", "t", "h", "s", " ",
       "s", "a", "v", "i", "n", "g", "s", " ", "5", " ", "t", "o", " ", "1",
       "0">>,
     <<"S", "t", "a", "t", "s", ":", " ", "c", "h", "e", "c", "k", "i", "n",
       "g", " ", "a", "c", "c", "o", "u", "n", "t", ",", " ", "g", "r", "o",
       "c", "e", "r", "i", "e", "s", ",", " ", "t", "h", "i", "s", " ", "m",
       "o", "n", "t", "h">>,
     <<"e", "v", "e", "r", "y", "t", "h", "i", "n", "g", " ", "a", "t", " ",
       "w", "a", "l", "m", "a", "r", "t">>,
     <<"o", "v", "e", "r", "v", "i", "e", "w">>,
     <<"u", "b", "e", "r", " ", "r", "i", "d", "e", "s", " ", "p", "a", "s",
       "t", " ", "y", "e", "a", "r", " ", "o", "v", "e", "r", " ", "$", " ",
       "5">>,
     <<"1", "2", "0", " ", "t", "o", " ", "5">>}

\* The backend the chat client meets answers the request of the intent.
ChatBackends(query_type) ==
    IF query_type = "summary" THEN SummaryBackends ELSE SearchBackends

\* The texts the classifier, the extractor and the entry point of the
\* intent are applied to one after the other: the prompts and the empty one.
PipelineTexts == ChatPrompts \cup {<<>>}

\* Two of the example queries of the LLM client, lines 514-528, and a prompt
\* typed into its chat input.
LlmExamples ==
    {<<"S", "h", "o", "w", " ", "m", "e", " ", "a", "l", "l", " ", "g", "a",
       "s", " ", "s", "t", "a", "t", "i", "o", "n", " ", "p", "u", "r", "c",
       "h", "a", "s", "e", "s">>,
     <<"W", "h", "a", "t", " ", "a", "r", "e", " ", "m", "y", " ", "b", "i",
       "g", "g", "e", "s", "t", " ", "e", "x", "p", "e", "n", "s", "e", "s",
       " ", "t", "h", "i", "s", " ", "m", "o", "n", "t", "h", "?">>}

LlmPrompts == {<<"c", "o", "f", "f", "e", "e", " ", "l", "a", "s", "t", " ",
                 "w", "e", "e", "k">>}

\* How a call of process_and_display_query ends: it returns the response,
\* or an exception leaves it (process_query and the calls of line 372 have
\* no try statement).
ProcessOutcomes == {"response", "raise"}

\* Phrases about amounts: one for each pattern, one in upper case, one
\* with no digit after the dollar sign, one whose amount goes on with a
\* digit, and a word that is no amount phrase.
AmountPhrases ==
    {<<"o", "v", "e", "r", " ", "$", "5", "0">>,
     <<"A", "b", "o", "v", "e", " ", "7">>,
     <<"m", "o", "r", "e", " ", "t", "h", "a", "n", " ", "$", "2", "0">>,
     <<"u", "n", "d", "e", "r", " ", "3", "0">>,
     <<"b", "e", "l", "o", "w", " ", "$", "5">>,
     <<"l", "e", "s", "s", " ", "t", "h", "a", "n", " ", "9">>,
     <<"b", "e", "t", "w", "e", "e", "n", " ", "$", "2", "0", " ", "a", "n",
       "d", " ", "$", "1", "0", "0">>,
     <<"3", " ", "t", "o", " ", "4">>,
     <<"o", "v", "e", "r", " ", "$", "x">>,
     <<"b", "e", "t", "w", "e", "e", "n", " ", "$", "2", "0", " ", "a", "n",
       "d", " ", "$", "1", "0", "0", "0">>,
     <<"p", "l", "e", "a", "s", "e">>}

\* Phrases about dates: month names, relative periods, and "last" alone.
DatePhrases ==
    {<<"j", "a", "n", "u", "a", "r", "y">>,
     <<"M", "a", "r", "c", "h">>,
     <<"m", "a", "y">>,
     <<"d", "e", "c", "e", "m", "b", "e", "r">>,
     <<"l", "a", "s", "t", " ", "w", "e", "e", "k">>,
     <<"t", "h", "i", "s", " ", "y", "e", "a", "r">>,
     <<"p", "a", "s", "t", " ", "m", "o", "n", "t", "h">>,
     <<"p", "a", "s", "t", " ", "3", " ", "m", "o", "n", "t", "h", "s">>,
     <<"l", "a", "s", "t", " ", "y", "e", "a", "r">>,
     <<"t", "h", "i", "s", " ", "m", "o", "n", "t", "h">>,
     <<"l", "a", "s", "t">>}

\* Phrases about categories, account types and the limit.
KeywordPhrases ==
    {<<"g", "a", "s", "o", "l", "i", "n", "e">>,
     <<"g", "a", "s">>,
     <<"t", "r", "a", "n", "s", "p", "o", "r", "t", "a", "t", "i", "o",
       "n">>,
     <<"t", "r", "a", "n", "s", "p", "o", "r", "t">>,
     <<"g", "r", "o", "c", "e", "r", "i", "e", "s">>,
     <<"c", "o", "f", "f", "e", "e">>,
     <<"C", "h", "e", "c", "k", "i", "n", "g">>,
     <<"s", "a", "v", "i", "n", "g", "s">>,
     <<"c", "r", "e", "d", "i", "t">>,
     <<"a", "l", "l">>,
     <<"e", "v", "e", "r", "y", "t", "h", "i", "n", "g">>,
     <<"s", "m", "a", "l", "l">>,
     <<"S", "t", "a", "r", "b", "u", "c", "k", "s">>}

\* The texts parameters are extracted from: the example queries, and the
\* texts made of phrases of one kind.
ParseTexts ==
    {examples[i] : i \in 1..Len(examples)}
    \cup TextsOf(AmountPhrases, MaxPhrases)
    \cup TextsOf(DatePhrases, MaxPhrases)
    \cup TextsOf(KeywordPhrases, MaxPhrases)

\* The text in other cases: lower, upper, title, and as it is.
CaseVariants(text) ==
    {text, lower(text), title(text),
     [i \in 1..Len(text) |-> UpperChar(text[i])]}

\* The texts given to the extractor and the classifier in two cases.
CaseTexts ==
    ChatPrompts \cup AmountPhrases \cup DatePhrases \cup KeywordPhrases
    \cup ClassifyWords

---------------------------------------------------------------------------
(* The state machine: a caller invokes an entry point and gets its result. *)

Init ==
    /\ pc = "idle"
    /\ fn = "none"
    /\ args = <<>>
    /\ backend = <<>>
    /\ esLog = <<>>
    /\ ret = <<>>
    /\ raised = FALSE
    /\ messages = <<>>
    /\ invoked = <<>>
    /\ conversation_history = <<>>
    /\ session_state = [llm_messages |-> <<>>,
                        processing_last_message |-> FALSE]
    /\ processed = <<>>

SearchTransactions ==
    /\ pc = "idle"
    /\ \E params \in FilterModels, be \in SearchBackends :
        LET r == search_transactions(params, be)
        IN  /\ fn' = "search_transactions"
            /\ args' = params
            /\ backend' = be
            /\ esLog' = r.calls
            /\ ret' = r.value
            /\ raised' = r.raised
    /\ pc' = "returned"
    /\ UNCHANGED <<messages, invoked, conversation_history, session_state,
                   processed>>

GetTransactionSummary ==
    /\ pc = "idle"
    /\ \E a \in SummaryArgs, be \in SummaryBackends :
        LET r == get_transaction_summary(a, be)
        IN  /\ fn' = "get_transaction_summary"
            /\ args' = a
            /\ backend' = be
            /\ esLog' = r.calls
            /\ ret' = r.value
            /\ raised' = r.raised
    /\ pc' = "returned"
    /\ UNCHANGED <<messages, invoked, conversation_history, session_state,
                   processed>>

\* The caller is done with the result and may call again.
Return ==
    /\ pc = "returned"
    /\ pc' = "idle"
    /\ fn' = "none"
    /\ args' = <<>>
    /\ backend' = <<>>
    /\ esLog' = <<>>
    /\ ret' = <<>>
    /\ raised' = FALSE
    /\ invoked' = <<>>
    /\ UNCHANGED <<messages, conversation_history, session_state, processed>>

ExecuteToolCall ==
    /\ pc = "idle"
    /\ \E tool_call \in ToolCalls :
        \E be \in ToolBackends(tool_call) :
            LET r == execute_tool_call(tool_call, be)
            IN  /\ fn' = "execute_tool_call"
                /\ args' = tool_call
                /\ backend' = be
                /\ esLog' = r.calls
                /\ ret' = r.value
                /\ raised' = r.raised
    /\ pc' = "returned"
    /\ UNCHANGED <<messages, invoked, conversation_history, session_state,
                   processed>>

DetermineQueryType ==
    /\ pc = "idle"
    /\ \E query \in ClassifyTexts :
        /\ fn' = "determine_query_type"
        /\ args' = query
        /\ ret' = determine_query_type(query)
    /\ backend' = <<>>
    /\ esLog' = <<>>
    /\ raised' = FALSE
    /\ pc' = "returned"
    /\ UNCHANGED <<messages, invoked, conversation_history, session_state,
                   processed>>

\* A script run of main with a prompt typed into the chat input, lines
\* 295-402.
ChatInput ==
    /\ pc = "idle"
    /\ Len(messages) + 2 <= MaxMessages
    /\ \E prompt \in ChatPrompts, today \in Todays :
        \E query_type \in {determine_query_type(prompt)},
           params \in {parse_natural_language(prompt, today)} :
            \E be \in ChatBackends(query_type) :
                \E branch \in {ChatDispatch(query_type, params, be)} :
                    /\ args' = [prompt |-> prompt, today |-> today]
                    /\ backend' = be
                    /\ esLog' = branch.calls
                    /\ ret' = ChatResponse(branch)
                    /\ invoked' = ChatInvoked(prompt, branch)
                    /\ messages' =
                            messages
                            \o <<[role |-> "user", content |-> prompt],
                                  [role |-> "assistant",
                                   content |-> ChatResponse(branch)]>>
    /\ fn' = "chat_input"
    /\ raised' = FALSE
    /\ pc' = "idle"
    /\ UNCHANGED <<conversation_history, session_state, processed>>

\* A click on an example button, lines 284-287, and the script run that
\* st.rerun() starts, in which the chat input holds no prompt.
ExampleClick ==
    /\ pc = "idle"
    /\ Len(messages) + 1 <= MaxMessages
    /\ \E i \in 1..Len(examples) :
        /\ args' = [prompt |-> examples[i]]
        /\ messages' =
                Append(messages, [role |-> "user", content |-> examples[i]])
    /\ fn' = "example_click"
    /\ backend' = <<>>
    /\ esLog' = <<>>
    /\ ret' = <<>>
    /\ invoked' = <<>>
    /\ raised' = FALSE
    /\ pc' = "idle"
    /\ UNCHANGED <<conversation_history, session_state, processed>>

ParseNaturalLanguage ==
    /\ pc = "idle"
    /\ \E query \in ParseTexts, today \in Todays :
        /\ args' = [query |-> query, today |-> today]
        /\ ret' = parse_natural_language(query, today)
    /\ fn' = "parse_natural_language"
    /\ backend' = <<>>
    /\ esLog' = <<>>
    /\ raised' = FALSE
    /\ pc' = "returned"
    /\ UNCHANGED <<messages, invoked, conversation_history, session_state,
                   processed>>

\* The classifier, the extractor and the entry point of the intent applied
\* to a text, as lines 304-393 apply them to a prompt.
ProcessText ==
    /\ pc = "idle"
    /\ \E text \in PipelineTexts, today \in Todays :
        \E query_type \in {determine_query_type(text)},
           params \in {parse_natural_language(text, today)} :
            \E be \in ChatBackends(query_type) :
                \E branch \in {ChatDispatch(query_type, params, be)} :
                    /\ args' = [prompt |-> text, today |-> today]
                    /\ backend' = be
                    /\ esLog' = branch.calls
                    /\ ret' = ChatResponse(branch)
                    /\ invoked' = ChatInvoked(text, branch)
    /\ fn' = "process_text"
    /\ raised' = FALSE
    /\ pc' = "returned"
    /\ UNCHANGED <<messages, conversation_history, session_state, processed>>

\* The extractor and the classifier applied, on one day, to a text written
\* in two ways that differ in the case of letters.
ParseBothCases ==
    /\ pc = "idle"
    /\ \E text \in CaseTexts, today \in Todays :
        \E first \in CaseVariants(text) :
            \E second \in CaseVariants(text) \ {first} :
                /\ args' = [query |-> first, other |-> second,
                            today |-> today]
                /\ ret' = [params |->
                                <<parse_natural_language(first, today),
                                  parse_natural_language(second, today)>>,
                           query_type |->
                                <<determine_query_type(first),
                                  determine_query_type(second)>>]
    /\ fn' = "both_cases"
    /\ backend' = <<>>
    /\ esLog' = <<>>
    /\ raised' = FALSE
    /\ pc' = "returned"
    /\ UNCHANGED <<messages, invoked, conversation_history, session_state,
                   processed>>

\* The response process_and_display_query returns for a prompt, line 372
\* on: what the language model and the tools make of it.
LlmResponse(prompt) == [text |-> "response", prompt |-> prompt]

\* A script run's part, lines 553-573, for a user message at the end of the
\* history: how the run goes on, the session state and the calls made.
PendingBlock(ss, log, outcome) ==
    IF /\ Len(ss.llm_messages) > 0
       /\ ss.llm_messages[Len(ss.llm_messages)].role = "user"
       /\ ~ss.processing_last_message
    THEN LET last_message == ss.llm_messages[Len(ss.llm_messages)].content
             calls == Append(log, Len(ss.llm_messages))
         IN  IF outcome = "raise"
             THEN [raised |-> TRUE,
                   ss |-> [ss EXCEPT !.processing_last_message = TRUE],
                   processed |-> calls]
             ELSE [raised |-> FALSE,
                   ss |-> [ss EXCEPT
                            !.llm_messages =
                                Append(@, [role |-> "assistant",
                                           content |->
                                                LlmResponse(last_message)]),
                            !.processing_last_message = FALSE],
                   processed |-> calls]
    ELSE [raised |-> FALSE, ss |-> ss, processed |-> log]

\* A script run's part for a prompt, lines 576-595, and for an example
\* button that was clicked, lines 536-549.
PromptBlock(ss, log, prompt, outcome) ==
    LET asked == Append(ss.llm_messages,
                        [role |-> "user", content |-> prompt])
        calls == Append(log, Len(asked))
    IN  IF outcome = "raise"
        THEN [raised |-> TRUE,
              ss |-> [ss EXCEPT !.llm_messages = asked],
              processed |-> calls]
        ELSE [raised |-> FALSE,
              ss |-> [ss EXCEPT
                        !.llm_messages =
                            Append(asked, [role |-> "assistant",
                                           content |-> LlmResponse(prompt)])],
              processed |-> calls]

\* What a script run of the LLM client leaves, r being what its blocks made.
LlmRun(name, prompt, r) ==
    /\ pc = "idle"
    /\ Len(r.ss.llm_messages) <= MaxLlmMessages
    /\ fn' = name
    /\ args' = [prompt |-> prompt]
    /\ session_state' = r.ss
    /\ processed' = r.processed
    /\ raised' = r.raised
    /\ backend' = <<>>
    /\ esLog' = <<>>
    /\ ret' = <<>>
    /\ pc' = "idle"
    /\ UNCHANGED <<messages, invoked, conversation_history>>

\* A click on an example button of the LLM client, lines 533-550: the
\* script run of the click and, when st.rerun() is reached, the run it
\* starts, in which the history ends with the assistant's message.
LlmExampleClick ==
    \E example \in LlmExamples, outcome \in ProcessOutcomes :
        LlmRun("llm_example_click", example,
               PromptBlock(session_state, processed, example, outcome))

\* A script run of the LLM client with no example clicked and no prompt,
\* and a user message at the end of the history.
LlmRerun ==
    /\ Len(session_state.llm_messages) > 0
    /\ session_state.llm_messages[Len(session_state.llm_messages)].role
            = "user"
    /\ ~session_state.processing_last_message
    /\ \E outcome \in ProcessOutcomes :
        LlmRun("llm_rerun", <<>>,
               PendingBlock(session_state, processed, outcome))

\* A script run of the LLM client with a prompt typed into the chat input:
\* lines 553-573, then lines 576-595 unless an exception ended the run.
LlmChatInput ==
    \E prompt \in LlmPrompts, pending \in ProcessOutcomes,
       outcome \in ProcessOutcomes :
        \E first \in {PendingBlock(session_state, processed, pending)} :
            LlmRun("llm_chat_input", prompt,
                   IF first.raised THEN first
                   ELSE PromptBlock(first.ss, first.processed, prompt,
                                    outcome))

Next ==
    \/ SearchTransactions
    \/ GetTransactionSummary
    \/ Return

Spec == Init /\ [][Next]_vars

NextTool ==
    \/ ExecuteToolCall
    \/ Return

NextClassify ==
    \/ DetermineQueryType
    \/ Return

\* The intent classifier applied to texts.
SpecClassify == Init /\ [][NextClassify]_vars

NextChat ==
    \/ ChatInput
    \/ ExampleClick

\* A session of the rule-based chat client.
SpecChat == Init /\ [][NextChat]_vars

NextParse ==
    \/ ParseNaturalLanguage
    \/ Return

\* The parameter extractor applied to texts.
SpecParse == Init /\ [][NextParse]_vars

NextPipeline ==
    \/ ProcessText
    \/ Return

\* The classifier, the extractor and the entry point applied to texts.
SpecPipeline == Init /\ [][NextPipeline]_vars

NextCase ==
    \/ ParseBothCases
    \/ Return

\* The extractor and the classifier applied to a text in two cases.
SpecCase == Init /\ [][NextCase]_vars

NextLlm ==
    \/ LlmExampleClick
    \/ LlmRerun
    \/ LlmChatInput

\* A session of the LLM chat client.
SpecLlm == Init /\ [][NextLlm]_vars

\* The LLM client executing the tool calls of the language model.
SpecTool == Init /\ [][NextTool]_vars

---------------------------------------------------------------------------
(* Properties of search_transactions and get_transaction_summary. *)

SearchRan == pc = "returned" /\ fn = "search_transactions"

SummaryRan == pc = "returned" /\ fn = "get_transaction_summary"

\* The filters of a Filter Model, the two range pairs each counted once.
FilterNames ==
    {"description", "merchant", "category", "location", "account_type",
     "transaction_type", "amount", "date", "tags"}

\* A filter is set: an amount bound when it is not None (0 included), a
\* string or a tag list when it is not None and not empty.
IsSet(p, name) ==
    CASE name = "amount" -> ~IsNone(p.amount_min) \/ ~IsNone(p.amount_max)
      [] name = "date" -> Truthy(p.date_from) \/ Truthy(p.date_to)
      [] OTHER -> Truthy(p[name])

\* Clause c of a compiled query is the clause of the named filter.
IsClauseOf(name, c) ==
    CASE name = "description" ->
            "multi_match" \in DOMAIN c
            /\ c.multi_match.fields[1] = "description^2"
      [] name = "location" ->
            "multi_match" \in DOMAIN c
            /\ c.multi_match.fields[1] = "location.city"
      [] name = "merchant" ->
            "match" \in DOMAIN c /\ "merchant" \in DOMAIN c.match
      [] name = "category" ->
            "match" \in DOMAIN c /\ "category" \in DOMAIN c.match
      [] name = "account_type" ->
            "term" \in DOMAIN c /\ "account_type.keyword" \in DOMAIN c.term
      [] name = "transaction_type" ->
            "term" \in DOMAIN c /\ "transaction_type.keyword" \in DOMAIN c.term
      [] name = "amount" ->
            "range" \in DOMAIN c /\ "amount" \in DOMAIN c.range
      [] name = "date" ->
            "range" \in DOMAIN c /\ "transaction_date" \in DOMAIN c.range
      [] name = "tags" ->
            "terms" \in DOMAIN c /\ "tags.keyword" \in DOMAIN c.terms

IsConjunction(q) == DOMAIN q = {"bool"} /\ DOMAIN q.bool = {"must"}

\* The number of clauses of the named filter in a conjunction.
ClauseCount(q, name) ==
    Cardinality({i \in 1..Len(q.bool.must) : IsClauseOf(name, q.bool.must[i])})

OneClausePerSetFilter(p, q) ==
    /\ \A name \in FilterNames :
        ClauseCount(q, name) = IF IsSet(p, name) THEN 1 ELSE 0
    /\ Len(q.bool.must) = Cardinality({name \in FilterNames : IsSet(p, name)})

\* C1: a Filter Model in which no filter is set, whatever its limit, is
\* compiled to match_all and never to a conjunction of zero clauses: every
\* request search_transactions issues for it, and the query it echoes,
\* carries match_all.
C1_EmptyFilterIsMatchAll ==
    (SearchRan /\ \A name \in FilterNames : ~IsSet(args, name)) =>
        /\ \A i \in 1..Len(esLog) :
            /\ esLog[i].body.query = MatchAll
            /\ ~IsConjunction(esLog[i].body.query)
        /\ ret.success => ret.query_info.elasticsearch_query = MatchAll

\* C1 happens: a search with every filter None and a limit of 5 was sent.
C1_Witness ==
    /\ SearchRan
    /\ \A i \in 1..Len(FilterFields) : IsNone(args[FilterFields[i]])
    /\ args.limit = Some(5)
    /\ Len(esLog) = 1
    /\ ret.success

\* C2 as stated: for every Filter Model the compiled query is a conjunction
\* with exactly one clause for each set filter and none for an unset one.
C2_AlwaysConjunction ==
    SearchRan =>
        \A i \in 1..Len(esLog) :
            /\ IsConjunction(esLog[i].body.query)
            /\ OneClausePerSetFilter(args, esLog[i].body.query)

\* C2, amended: for every Filter Model with at least one set filter the
\* compiled query is a conjunction (bool/must) with exactly one clause for
\* each set filter and no other clause; with no filter set it is match_all.
C2_ConjunctionWhenAnyFilterSet ==
    SearchRan =>
        \A i \in 1..Len(esLog) :
            IF \E name \in FilterNames : IsSet(args, name)
            THEN /\ IsConjunction(esLog[i].body.query)
                 /\ OneClausePerSetFilter(args, esLog[i].body.query)
            ELSE esLog[i].body.query = MatchAll

\* C2 happens: a location and both amount bounds give two clauses.
C2_Witness ==
    /\ SearchRan
    /\ Len(esLog) = 1
    /\ Truthy(args.location)
    /\ ~IsNone(args.amount_min)
    /\ ~IsNone(args.amount_max)
    /\ IsConjunction(esLog[1].body.query)
    /\ Len(esLog[1].body.query.bool.must) = 2

\* The bounds of a range clause mirror the Filter Model's bounds.
BoundsMirror(range_query, hasMin, min, hasMax, max) ==
    /\ ("gte" \in DOMAIN range_query) <=> hasMin
    /\ ("lte" \in DOMAIN range_query) <=> hasMax
    /\ hasMin => range_query.gte = Val(min)
    /\ hasMax => range_query.lte = Val(max)

\* C3: in the compiled query the amount range clause has gte exactly when
\* amount_min is set and lte exactly when amount_max is set, 0 counting as
\* set; the date range clause has gte/lte exactly when date_from/date_to is
\* set (a non-empty string); each bound present is the Filter Model's value
\* unchanged, also when amount_min > amount_max.
C3_RangeBoundsPassThrough ==
    SearchRan =>
        \A i \in 1..Len(esLog) :
            LET q == esLog[i].body.query
            IN  IsConjunction(q) =>
                    \A j \in 1..Len(q.bool.must) :
                        LET c == q.bool.must[j]
                        IN  /\ IsClauseOf("amount", c) =>
                                BoundsMirror(c.range.amount,
                                    ~IsNone(args.amount_min), args.amount_min,
                                    ~IsNone(args.amount_max), args.amount_max)
                            /\ IsClauseOf("date", c) =>
                                BoundsMirror(c.range.transaction_date,
                                    Truthy(args.date_from), args.date_from,
                                    Truthy(args.date_to), args.date_to)

\* C3 happens: an inverted amount range whose upper bound is 0 was sent.
C3_Witness ==
    /\ SearchRan
    /\ Len(esLog) = 1
    /\ args.amount_min = Some(100)
    /\ args.amount_max = Some(0)
    /\ Truthy(args.date_from)
    /\ Len(esLog[1].body.query.bool.must) = 2

\* C4 as stated: every search request asks for results sorted by
\* transaction_date, descending, and for a size equal to the Filter Model's
\* limit, 10 when no limit was given.
C4_SizeEqualsLimit ==
    SearchRan =>
        \A i \in 1..Len(esLog) :
            /\ esLog[i].body.sort =
                << ("transaction_date" :> [order |-> "desc"]) >>
            /\ esLog[i].body.size =
                IF IsNone(args.limit) THEN 10 ELSE Val(args.limit)

SearchFailed ==
    \/ backend.client = "raise"
    \/ backend.search = "raise"
    \/ "hits" \notin DOMAIN backend.response

\* C5: no run of search_transactions lets an exception reach the caller;
\* when client construction or the backend call fails, it returns an
\* envelope with success false, a non-empty error message and an empty
\* transactions list.
C5_SearchFailureIsEnvelope ==
    SearchRan =>
        /\ ~raised
        /\ SearchFailed =>
            /\ DOMAIN ret = {"success", "error", "transactions"}
            /\ ret.success = FALSE
            /\ ret.error # ""
            /\ Len(ret.transactions) = 0

\* C5 happens: es.search raised for a Filter Model with a merchant.
C5_Witness ==
    /\ SearchRan
    /\ Truthy(args.merchant)
    /\ backend.search = "raise"
    /\ Len(esLog) = 1
    /\ ret.success = FALSE

\* C6: a run of search_transactions or get_transaction_summary issues the
\* backend search at most once; when the call raises, the run has issued
\* it exactly once and returns the error envelope carrying that failure.
C6_SearchIssuedAtMostOnce ==
    (SearchRan \/ SummaryRan) =>
        /\ Len(esLog) <= 1
        /\ backend.client = "raise" => Len(esLog) = 0
        /\ backend.search = "raise" =>
            /\ Len(esLog) = 1
            /\ ret.success = FALSE
            /\ ret.error = backend.msg

\* C6 happens: the aggregation call of a summary raised.
C6_Witness ==
    /\ SummaryRan
    /\ backend.search = "raise"
    /\ Len(esLog) = 1
    /\ ret.success = FALSE

SummaryFailed ==
    \/ backend.client = "raise"
    \/ backend.search = "raise"
    \/ "aggregations" \notin DOMAIN backend.response

\* C7: when the backend answers with zero matching documents,
\* search_transactions returns success true with total_hits 0,
\* returned_count 0 and no transactions, and get_transaction_summary
\* returns success true with total_amount and average_amount 0; a failure
\* has success false, so the two are told apart.
C7_ZeroMatchIsSuccess ==
    /\ (SearchRan /\ ~SearchFailed /\ backend.response.hits.total.value = 0) =>
        /\ ret.success = TRUE
        /\ ret.total_hits = 0
        /\ ret.returned_count = 0
        /\ Len(ret.transactions) = 0
    /\ (SummaryRan /\ ~SummaryFailed
            /\ backend.response.aggregations.transaction_count.value = 0) =>
        /\ ret.success = TRUE
        /\ ret.summary.total_amount = 0
        /\ ret.summary.average_amount = 0
    /\ (SearchRan /\ SearchFailed) => ret.success = FALSE
    /\ (SummaryRan /\ SummaryFailed) => ret.success = FALSE

\* C7 happens: a summary over no documents, whose average is null.
C7_Witness ==
    /\ SummaryRan
    /\ ~SummaryFailed
    /\ backend.response.aggregations.transaction_count.value = 0
    /\ IsNone(backend.response.aggregations.avg_amount.value)
    /\ ret.success = TRUE

---------------------------------------------------------------------------
(* Properties of execute_tool_call. *)

ToolRan == pc = "returned" /\ fn = "execute_tool_call"

\* A string of the form YYYY-MM-DD.
IsDateString(s) ==
    /\ Len(s) = 10
    /\ \A i \in {1, 2, 3, 4, 6, 7, 9, 10} : IsDigit(s[i])
    /\ s[5] = "-"
    /\ s[8] = "-"

\* Argument f of a structured filter is malformed: a date that does not
\* parse, or an amount that is no number.
IsMalformed(f, j) ==
    \/ f \in {"date_from", "date_to"} /\ "str" \in DOMAIN j
        /\ ~IsDateString(j.str)
    \/ f \in FloatFields /\ "str" \in DOMAIN j /\ ~IsDigits(j.str)

MalformedKeys(arguments) ==
    {f \in DOMAIN arguments : IsMalformed(f, arguments[f])}

Without(arguments, keys) ==
    [f \in DOMAIN arguments \ keys |-> arguments[f]]

\* C8: when a structured filter holds one malformed field (a date that does
\* not parse, an amount that is no number) and the backend answers, only
\* that field is rejected: the request does not fail, and the query that is
\* executed is the one compiled from the remaining fields.
C8_MalformedFieldRejectedAlone ==
    (/\ ToolRan
     /\ args.function.name = "search_transactions"
     /\ "json" \in DOMAIN args.function.arguments
     /\ Cardinality(MalformedKeys(args.function.arguments.json)) = 1
     /\ ~SearchFailed) =>
        /\ ~raised
        /\ "error" \notin DOMAIN ret
        /\ Len(esLog) = 1
        /\ esLog[1].body.query =
            SearchQuery(ValidateParams(
                Without(args.function.arguments.json,
                        MalformedKeys(args.function.arguments.json))).params)

---------------------------------------------------------------------------
(* Properties of determine_query_type. *)

ClassifyRan == pc = "returned" /\ fn = "determine_query_type"

\* The keywords C9 lists.
C9_Keywords ==
    {<<"s", "u", "m", "m", "a", "r", "y">>,
     <<"t", "o", "t", "a", "l">>,
     <<"s", "u", "m">>,
     <<"h", "o", "w", " ", "m", "u", "c", "h">>,
     <<"s", "p", "e", "n", "d", "i", "n", "g">>,
     <<"s", "p", "e", "n", "t">>,
     <<"b", "r", "e", "a", "k", "d", "o", "w", "n">>,
     <<"a", "n", "a", "l", "y", "s", "i", "s">>,
     <<"s", "t", "a", "t", "i", "s", "t", "i", "c", "s">>,
     <<"s", "t", "a", "t", "s">>,
     <<"o", "v", "e", "r", "v", "i", "e", "w">>}

\* sub occurs in text at some position.
OccursIn(sub, text) ==
    \E start \in 1..(Len(text) + 1) :
        \A k \in 1..Len(sub) :
            start + k - 1 <= Len(text) /\ text[start + k - 1] = sub[k]

IsBlank(text) == \A i \in 1..Len(text) : text[i] = " "

\* C9: determine_query_type returns summary exactly when the lower-cased
\* text contains one of the keywords summary, total, sum, how much,
\* spending, spent, breakdown, analysis, statistics, stats, overview as a
\* substring, and search otherwise; for the empty or a blank text it
\* returns search and does not fail.
C9_SummaryIffKeyword ==
    ClassifyRan =>
        /\ ~raised
        /\ ret \in {"summary", "search"}
        /\ ret = "summary" <=>
            \E keyword \in C9_Keywords : OccursIn(keyword, lower(args))
        /\ IsBlank(args) => ret = "search"

\* C9 happens: a text is a summary only because of its lower-casing, the
\* keyword lying inside a longer word.
C9_Witness ==
    /\ ClassifyRan
    /\ ret = "summary"
    /\ Contains(args, <<"T", "O", "T", "A", "L">>)
    /\ Contains(args, <<"c", "o", "n", "s", "u", "m", "e">>)
    /\ \A keyword \in C9_Keywords :
        OccursIn(keyword, args) => keyword = <<"s", "u", "m">>

---------------------------------------------------------------------------
(* Properties of the rule-based chat client. *)

ChatRan == fn = "chat_input"

EntryPoints == {"search_transactions", "get_transaction_summary"}

\* The entry point that serves an intent.
EntryPointOf(intent) ==
    IF intent = "summary"
    THEN "get_transaction_summary"
    ELSE "search_transactions"

\* C10: for every prompt the rule-based chat client handles, exactly one
\* invocation of a backend entry point is made, after the classifier was
\* invoked: of get_transaction_summary when the prompt's intent is summary,
\* of search_transactions when it is search, and of no other entry point;
\* the request issued to the backend, if any, is of that entry point.
C10_OneEntryPointPerQuery ==
    ChatRan =>
        LET intent == determine_query_type(args.prompt)
            entries == {i \in 1..Len(invoked) : invoked[i].fn \in EntryPoints}
        IN  /\ Cardinality(entries) = 1
            /\ \A i \in entries :
                /\ invoked[i].fn = EntryPointOf(intent)
                /\ \E j \in 1..(i - 1) : invoked[j].fn = "determine_query_type"
            /\ \A k \in 1..Len(esLog) :
                "aggs" \in DOMAIN esLog[k].body <=> intent = "summary"

\* C10 happens: a prompt with a merchant and an amount has the summary
\* intent, and the summary is computed and shown.
C10_Witness ==
    /\ ChatRan
    /\ args.prompt = examples[2]
    /\ invoked[Len(invoked)].fn = "get_transaction_summary"
    /\ Len(esLog) = 1
    /\ ret.text = "Transaction Summary"
    /\ Len(messages) = 2

---------------------------------------------------------------------------
(* Properties of the summary path of the chat client. *)

ChatSummaryRan == ChatRan /\ determine_query_type(args.prompt) = "summary"

\* The parameters get_transaction_summary accepts.
ReducedFilterNames == {"date_from", "date_to", "category", "account_type"}

\* The clause constrains one field of the reduced filter.
IsReducedClause(clause) ==
    \/ DOMAIN clause = {"range"} /\ DOMAIN clause.range = {"transaction_date"}
    \/ DOMAIN clause = {"match"} /\ DOMAIN clause.match = {"category"}
    \/ DOMAIN clause = {"term"}
       /\ DOMAIN clause.term = {"account_type.keyword"}

\* C11: on the summary path get_transaction_summary is passed exactly the
\* date_from, date_to, category and account_type that were extracted, no
\* merchant, location, amount_min, amount_max or limit; and the aggregation
\* request has size 0 and a query that is match_all or made of clauses on
\* transaction_date, category and account_type only.
C11_SummaryForwardsReducedFilter ==
    ChatSummaryRan =>
        LET params == parse_natural_language(args.prompt, args.today)
            call == invoked[Len(invoked)]
        IN  /\ call.fn = "get_transaction_summary"
            /\ DOMAIN call.args = DOMAIN params \cap ReducedFilterNames
            /\ \A f \in DOMAIN call.args : call.args[f] = params[f]
            /\ \A k \in 1..Len(esLog) :
                LET body == esLog[k].body
                IN  /\ body.size = 0
                    /\ \/ body.query = [match_all |-> <<>>]
                       \/ /\ DOMAIN body.query = {"bool"}
                          /\ \A i \in 1..Len(body.query.bool.must) :
                                IsReducedClause(body.query.bool.must[i])

\* C11 happens: a merchant, a location, an amount and the limit 100 are
\* extracted from a summary prompt, and the aggregation runs over
\* everything.
C11_Witness ==
    /\ ChatSummaryRan
    /\ args.prompt = <<"T", "o", "t", "a", "l", " ", "s", "p", "e", "n",
                       "t", " ", "a", "t", " ", "W", "a", "l", "m", "a",
                       "r", "t", " ", "o", "v", "e", "r", " ", "$", "5",
                       "0", ",", " ", "a", "l", "l", " ", "o", "f", " ",
                       "i", "t">>
    /\ Len(esLog) = 1
    /\ esLog[1].body.query = [match_all |-> <<>>]
    /\ DOMAIN invoked[Len(invoked)].args = {}

---------------------------------------------------------------------------
(* Properties of the query of get_transaction_summary. *)

\* An argument of get_transaction_summary is set: not None and not empty.
SummaryArgSet(f) == Len(args[f]) = 1 /\ Len(args[f][1]) > 0

SummaryDatesSet == SummaryArgSet("date_from") \/ SummaryArgSet("date_to")

\* The range clause the date pair of the arguments stands for.
IsDatePairClause(clause) ==
    /\ DOMAIN clause = {"range"}
    /\ DOMAIN clause.range = {"transaction_date"}
    /\ LET bounds == clause.range.transaction_date
       IN  /\ "gte" \in DOMAIN bounds <=> SummaryArgSet("date_from")
           /\ "lte" \in DOMAIN bounds <=> SummaryArgSet("date_to")
           /\ "gte" \in DOMAIN bounds => bounds.gte = args.date_from[1]
           /\ "lte" \in DOMAIN bounds => bounds.lte = args.date_to[1]
           /\ DOMAIN bounds \subseteq {"gte", "lte"}

IsSummaryCategoryClause(clause) ==
    /\ DOMAIN clause = {"match"}
    /\ clause.match = [category |-> args.category[1]]

IsSummaryAccountClause(clause) ==
    /\ DOMAIN clause = {"term"}
    /\ DOMAIN clause.term = {"account_type.keyword"}
    /\ clause.term["account_type.keyword"] = lower(args.account_type[1])

\* The number of clauses of the list that satisfy the test.
CountClauses(must, Test(_)) ==
    Cardinality({i \in 1..Len(must) : Test(must[i])})

\* C12: when date_from, date_to, category and account_type are all unset
\* (None or empty), get_transaction_summary aggregates over match_all; when
\* one of them is set, over a bool/must conjunction that holds exactly one
\* range clause for the date pair if a date is set, one clause for the
\* category if it is set, one for the account type if it is set, and
\* nothing else.
C12_SummaryQueryPerSetFilter ==
    SummaryRan =>
        \A k \in 1..Len(esLog) :
            LET query == esLog[k].body.query
                expected ==
                    (IF SummaryDatesSet THEN 1 ELSE 0)
                    + (IF SummaryArgSet("category") THEN 1 ELSE 0)
                    + (IF SummaryArgSet("account_type") THEN 1 ELSE 0)
            IN  IF expected = 0
                THEN query = [match_all |-> <<>>]
                ELSE /\ DOMAIN query = {"bool"}
                     /\ DOMAIN query.bool = {"must"}
                     /\ Len(query.bool.must) = expected
                     /\ SummaryDatesSet =>
                            CountClauses(query.bool.must, IsDatePairClause) = 1
                     /\ SummaryArgSet("category") =>
                            CountClauses(query.bool.must,
                                         IsSummaryCategoryClause) = 1
                     /\ SummaryArgSet("account_type") =>
                            CountClauses(query.bool.must,
                                         IsSummaryAccountClause) = 1

\* C12 happens: both dates and the category are set, the account type is
\* the empty string, and the aggregation request carries two clauses.
C12_Witness ==
    /\ SummaryRan
    /\ SummaryArgSet("date_from")
    /\ SummaryArgSet("date_to")
    /\ SummaryArgSet("category")
    /\ args.account_type = <<s_empty>>
    /\ Len(esLog) = 1
    /\ Len(esLog[1].body.query.bool.must) = 2

---------------------------------------------------------------------------
(* Properties of the amount extraction of parse_natural_language.  The    *)
(* amount phrases are stated here directly, not through the patterns.     *)

ParseRan == pc = "returned" /\ fn = "parse_natural_language"

\* The text has the word at position pos.
WordAt(text, pos, word) ==
    /\ pos + Len(word) - 1 <= Len(text)
    /\ \A i \in 1..Len(word) : text[pos + i - 1] = word[i]

IsDecimalDigit(c) == c \in {"0", "1", "2", "3", "4", "5", "6", "7", "8", "9"}

\* An amount at position pos: an optional dollar sign and the longest run
\* of digits after it.  digits is empty when there is no amount there.
AmountAt(text, pos) ==
    LET from == IF pos <= Len(text) /\ text[pos] = "$" THEN pos + 1 ELSE pos
        to == CHOOSE n \in (from - 1)..Len(text) :
                /\ \A i \in from..n : IsDecimalDigit(text[i])
                /\ n < Len(text) => ~IsDecimalDigit(text[n + 1])
    IN  [digits |-> [i \in 1..(to - from + 1) |-> text[from + i - 1]],
         next |-> to + 1]

\* The words that introduce an amount, in the order of the phrases.
AmountWords ==
    << <<"o", "v", "e", "r", " ">>,
      <<"a", "b", "o", "v", "e", " ">>,
      <<"m", "o", "r", "e", " ", "t", "h", "a", "n", " ">>,
      <<"u", "n", "d", "e", "r", " ">>,
      <<"b", "e", "l", "o", "w", " ">>,
      <<"l", "e", "s", "s", " ", "t", "h", "a", "n", " ">>,
      <<"b", "e", "t", "w", "e", "e", "n", " ">> >>

\* The amounts of phrase k at position pos of the text, <<>> when the
\* phrase is not there.  Phrases 1 to 6 are a word and an amount N,
\* phrase 7 is between N and M, phrase 8 is N to M.
PhraseAt(k, text, pos) ==
    LET start == IF k <= 7 THEN pos + Len(AmountWords[k]) ELSE pos
        link == IF k = 7 THEN <<" ", "a", "n", "d", " ">> ELSE <<" ", "t",
                                                                 "o", " ">>
        first == AmountAt(text, start)
        second == AmountAt(text, first.next + Len(link))
    IN  IF k <= 7 /\ ~WordAt(text, pos, AmountWords[k]) THEN <<>>
        ELSE IF Len(first.digits) = 0 THEN <<>>
        ELSE IF k <= 6 THEN <<first.digits>>
        ELSE IF ~WordAt(text, first.next, link) THEN <<>>
        ELSE IF Len(second.digits) = 0 THEN <<>>
        ELSE <<first.digits, second.digits>>

\* The positions of the text at which phrase k is.
PhrasePositions(k, text) ==
    {pos \in 1..Len(text) : Len(PhraseAt(k, text, pos)) > 0}

\* The first phrase, in the order 1 to 8, that is somewhere in the text; 0
\* when none is.
FirstPhrase(text) ==
    IF \A k \in 1..8 : PhrasePositions(k, text) = {} THEN 0
    ELSE CHOOSE k \in 1..8 :
            /\ PhrasePositions(k, text) # {}
            /\ \A j \in 1..(k - 1) : PhrasePositions(j, text) = {}

\* The amounts of the leftmost occurrence of phrase k in the text.
LeftmostAmounts(k, text) ==
    LET positions == PhrasePositions(k, text)
        pos == CHOOSE p \in positions : \A q \in positions : p <= q
        found == PhraseAt(k, text, pos)
    IN  [i \in 1..Len(found) |-> ParseDigits(found[i])]

\* C13: the amount fields parse_natural_language returns are those of the
\* first phrase, in the order over, above, more than, under, below, less
\* than, between N and M, N to M, that occurs anywhere in the lower-cased
\* text: amount_min alone for the first three, amount_max alone for the
\* next three, both for the last two, none when no phrase occurs; phrases
\* later in the order set nothing, wherever they stand in the text.
C13_FirstPatternInOrderApplies ==
    ParseRan =>
        LET text == lower(args.query)
            k == FirstPhrase(text)
            amounts == LeftmostAmounts(k, text)
            min == "amount_min" \in DOMAIN ret
            max == "amount_max" \in DOMAIN ret
        IN  /\ k = 0 => ~min /\ ~max
            /\ k \in 1..3 => min /\ ~max /\ ret.amount_min = amounts[1]
            /\ k \in 4..6 => ~min /\ max /\ ret.amount_max = amounts[1]
            /\ k \in 7..8 =>
                /\ min /\ ret.amount_min = amounts[1]
                /\ max /\ ret.amount_max = amounts[2]

\* C13 happens: "under 30" stands before "over $50" in the text, and only
\* amount_min = 50 is set.
C13_Witness ==
    /\ ParseRan
    /\ args.query = <<"u", "n", "d", "e", "r", " ", "3", "0", " ", "o", "v",
                      "e", "r", " ", "$", "5", "0">>
    /\ ret.amount_min = 50
    /\ "amount_max" \notin DOMAIN ret

\* Every amount phrase of the text is phrase k with the given amounts, and
\* there is one.
OnlyAmountPhrase(text, k, amounts) ==
    /\ PhrasePositions(k, text) # {}
    /\ \A j \in 1..8 :
        \A pos \in PhrasePositions(j, text) :
            j = k /\ PhraseAt(j, text, pos) = amounts

\* C14 as stated: every text containing "between $20 and $100" yields
\* amount_min = 20 and amount_max = 100, whatever surrounds it.
C14_BetweenWhateverSurrounds ==
    (ParseRan /\ Contains(args.query, <<"b", "e", "t", "w", "e", "e", "n",
                                        " ", "$", "2", "0", " ", "a", "n",
                                        "d", " ", "$", "1", "0", "0">>)) =>
        /\ "amount_min" \in DOMAIN ret /\ ret.amount_min = 20
        /\ "amount_max" \in DOMAIN ret /\ ret.amount_max = 100

\* C14, amended: a text whose only amount phrase is "between $20 and $100"
\* yields amount_min = 20 and amount_max = 100, whatever else surrounds it.
C14_BetweenAsOnlyAmountPhrase ==
    (ParseRan /\ OnlyAmountPhrase(lower(args.query), 7,
                                  << <<"2", "0">>, <<"1", "0", "0">> >>)) =>
        /\ "amount_min" \in DOMAIN ret /\ ret.amount_min = 20
        /\ "amount_max" \in DOMAIN ret /\ ret.amount_max = 100

\* C14 happens: the phrase ends an example query that has a merchant.
C14_Witness ==
    /\ ParseRan
    /\ args.query = examples[6]
    /\ OnlyAmountPhrase(lower(args.query), 7, << <<"2", "0">>, <<"1", "0",
                                                                "0">> >>)
    /\ ret.amount_min = 20
    /\ ret.amount_max = 100

\* C15: a text whose only amount phrase is "over $50" yields amount_min =
\* 50 and no amount_max.
C15_OverAsOnlyAmountPhrase ==
    (ParseRan /\ OnlyAmountPhrase(lower(args.query), 1, << <<"5",
                                                            "0">> >>)) =>
        /\ "amount_min" \in DOMAIN ret /\ ret.amount_min = 50
        /\ "amount_max" \notin DOMAIN ret

\* C15 happens: the phrase comes after another word.
C15_Witness ==
    /\ ParseRan
    /\ args.query = <<"p", "l", "e", "a", "s", "e", " ", "o", "v", "e", "r",
                      " ", "$", "5", "0">>
    /\ OnlyAmountPhrase(lower(args.query), 1, << <<"5", "0">> >>)
    /\ ret.amount_min = 50
    /\ "amount_max" \notin DOMAIN ret

---------------------------------------------------------------------------
(* Properties of the date extraction of parse_natural_language. *)

\* The month names in calendar order.
CalendarMonths ==
    << <<"j", "a", "n", "u", "a", "r", "y">>,
      <<"f", "e", "b", "r", "u", "a", "r", "y">>,
      <<"m", "a", "r", "c", "h">>,
      <<"a", "p", "r", "i", "l">>,
      <<"m", "a", "y">>,
      <<"j", "u", "n", "e">>,
      <<"j", "u", "l", "y">>,
      <<"a", "u", "g", "u", "s", "t">>,
      <<"s", "e", "p", "t", "e", "m", "b", "e", "r">>,
      <<"o", "c", "t", "o", "b", "e", "r">>,
      <<"n", "o", "v", "e", "m", "b", "e", "r">>,
      <<"d", "e", "c", "e", "m", "b", "e", "r">> >>

\* The numbers of the months named in the text.
MonthsNamed(text) ==
    {n \in 1..12 : OccursIn(CalendarMonths[n], text)}

\* The first month, in calendar order, named in the text.
FirstMonthNamed(text) ==
    CHOOSE n \in MonthsNamed(text) : \A o \in MonthsNamed(text) : n <= o

\* The date year-month-day as text, the month and the day in two digits.
DateText(year, month, day) ==
    str(year) \o <<"-">> \o Format02d(month) \o <<"-">> \o Format02d(day)

\* The relative date phrases, in the order of their tests.
RelativePhrases ==
    << {<<"l", "a", "s", "t", " ", "w", "e", "e", "k">>,
        <<"p", "a", "s", "t", " ", "w", "e", "e", "k">>},
      {<<"l", "a", "s", "t", " ", "m", "o", "n", "t", "h">>,
       <<"p", "a", "s", "t", " ", "m", "o", "n", "t", "h">>},
      {<<"l", "a", "s", "t", " ", "3", " ", "m", "o", "n", "t", "h", "s">>,
       <<"p", "a", "s", "t", " ", "3", " ", "m", "o", "n", "t", "h", "s">>},
      {<<"l", "a", "s", "t", " ", "y", "e", "a", "r">>,
       <<"p", "a", "s", "t", " ", "y", "e", "a", "r">>},
      {<<"t", "h", "i", "s", " ", "y", "e", "a", "r">>},
      {<<"t", "h", "i", "s", " ", "m", "o", "n", "t", "h">>} >>

\* The text holds a phrase of the k-th test.
HasPhraseOf(k, text) ==
    \E phrase \in RelativePhrases[k] : OccursIn(phrase, text)

\* The text holds one of the relative date phrases.
HasRelativePhrase(text) ==
    \E k \in 1..Len(RelativePhrases) : HasPhraseOf(k, text)

\* C16: when the lower-cased text names a month, date_from is the 1st and
\* date_to the 31st of the first month named, in calendar order, both of
\* one year that is the current or the previous one; this holds also when
\* the text holds a relative date phrase.
C16_MonthGivesAbsoluteRange ==
    (ParseRan /\ MonthsNamed(lower(args.query)) # {}) =>
        LET month == FirstMonthNamed(lower(args.query))
        IN  /\ "date_from" \in DOMAIN ret
            /\ "date_to" \in DOMAIN ret
            /\ \E year \in {args.today.year, args.today.year - 1} :
                /\ ret.date_from = DateText(year, month, 1)
                /\ ret.date_to = DateText(year, month, 31)

\* C16 happens: the text holds "last week" and names March; the range is
\* March of the current year, not the last seven days.
C16_Witness ==
    /\ ParseRan
    /\ HasRelativePhrase(lower(args.query))
    /\ MonthsNamed(lower(args.query)) = {3}
    /\ args.today = [year |-> 2024, month |-> 3, day |-> 5]
    /\ ret.date_from = <<"2", "0", "2", "4", "-", "0", "3", "-", "0", "1">>
    /\ ret.date_to = <<"2", "0", "2", "4", "-", "0", "3", "-", "3", "1">>

\* C17: when the text names a month, the year of the range is the current
\* year minus one if the text contains "last" and the number of the month
\* is greater than that of the current month, and the current year
\* otherwise.
C17_YearOfNamedMonth ==
    (ParseRan /\ MonthsNamed(lower(args.query)) # {}) =>
        LET month == FirstMonthNamed(lower(args.query))
            year ==
                IF /\ OccursIn(<<"l", "a", "s", "t">>, lower(args.query))
                   /\ month > args.today.month
                THEN args.today.year - 1
                ELSE args.today.year
        IN  /\ ret.date_from = DateText(year, month, 1)
            /\ ret.date_to = DateText(year, month, 31)

\* C17 happens: "last" with the current month keeps the current year.
C17_Witness ==
    /\ ParseRan
    /\ OccursIn(<<"l", "a", "s", "t">>, lower(args.query))
    /\ MonthsNamed(lower(args.query)) # {}
    /\ FirstMonthNamed(lower(args.query)) = args.today.month
    /\ ret.date_from = DateText(args.today.year, args.today.month, 1)

---------------------------------------------------------------------------
(* Properties of the category, account type and limit extraction. *)

\* The mapping keywords that occur in the text.
KeywordsIn(text) ==
    {i \in 1..Len(categories) : OccursIn(categories[i].keyword, text)}

\* C18 as stated: the keyword that sets the category is never part of a
\* longer mapping keyword that the text holds as well, the longer keyword
\* being tested first.
C18_LongerKeywordTestedFirst ==
    ParseRan =>
        LET text == lower(args.query)
            keyword == CategoryKeyword(text)
        IN  \A i \in KeywordsIn(text) :
                Len(keyword[1]) < Len(categories[i].keyword) =>
                    ~OccursIn(keyword[1], categories[i].keyword)

\* C18, amended: the category is that of the first keyword, in the order of
\* the mapping, that the lower-cased text holds, and there is none when the
\* text holds no keyword; in that order gas comes before gasoline and
\* transport before transportation, and every longer keyword in the text
\* that the first one is part of maps to the same category.
C18_FirstKeywordInMappingOrder ==
    ParseRan =>
        LET text == lower(args.query)
            hits == KeywordsIn(text)
            first == CHOOSE i \in hits : \A j \in hits : i <= j
        IN  IF hits = {}
            THEN "category" \notin DOMAIN ret
            ELSE /\ "category" \in DOMAIN ret
                 /\ ret.category = categories[first].category
                 /\ \A j \in hits :
                        OccursIn(categories[first].keyword,
                                 categories[j].keyword)
                        => categories[j].category = ret.category

\* C18 happens: the text says gasoline, the loop stops at gas, and the
\* category is gas.
C18_Witness ==
    /\ ParseRan
    /\ args.query = <<"g", "a", "s", "o", "l", "i", "n", "e">>
    /\ CategoryKeyword(lower(args.query)) = << <<"g", "a", "s">> >>
    /\ ret.category = <<"g", "a", "s">>

\* C19: account_type is checking when the lower-cased text contains
\* checking, otherwise savings when it contains savings, otherwise credit
\* when it contains credit, otherwise absent; with several of the words in
\* the text the first of that list wins.
C19_AccountTypePriority ==
    ParseRan =>
        LET text == lower(args.query)
        IN  IF OccursIn(<<"c", "h", "e", "c", "k", "i", "n", "g">>, text)
            THEN /\ "account_type" \in DOMAIN ret
                 /\ ret.account_type = <<"c", "h", "e", "c", "k", "i", "n",
                                         "g">>
            ELSE IF OccursIn(<<"s", "a", "v", "i", "n", "g", "s">>, text)
            THEN /\ "account_type" \in DOMAIN ret
                 /\ ret.account_type = <<"s", "a", "v", "i", "n", "g", "s">>
            ELSE IF OccursIn(<<"c", "r", "e", "d", "i", "t">>, text)
            THEN /\ "account_type" \in DOMAIN ret
                 /\ ret.account_type = <<"c", "r", "e", "d", "i", "t">>
            ELSE "account_type" \notin DOMAIN ret

\* C19 happens: the text says credit before Checking and the account type
\* is checking.
C19_Witness ==
    /\ ParseRan
    /\ args.query = <<"c", "r", "e", "d", "i", "t", " ", "C", "h", "e", "c",
                      "k", "i", "n", "g">>
    /\ ret.account_type = <<"c", "h", "e", "c", "k", "i", "n", "g">>

\* C20: the limit is 100 when the lower-cased text contains all or
\* everything anywhere, and 10 otherwise, whatever else is extracted; Show me
\* all Starbucks purchases is a search with merchant Starbucks and limit 100.
C20_LimitFromAllOrEverything ==
    ParseRan =>
        LET text == lower(args.query)
        IN  /\ "limit" \in DOMAIN ret
            /\ ret.limit = IF \/ OccursIn(<<"a", "l", "l">>, text)
                              \/ OccursIn(<<"e", "v", "e", "r", "y", "t",
                                            "h", "i", "n", "g">>, text)
                           THEN 100 ELSE 10
            /\ args.query = <<"S", "h", "o", "w", " ", "m", "e", " ", "a",
                              "l", "l", " ", "S", "t", "a", "r", "b", "u",
                              "c", "k", "s", " ", "p", "u", "r", "c", "h",
                              "a", "s", "e", "s">> =>
                  /\ determine_query_type(args.query) = "search"
                  /\ "merchant" \in DOMAIN ret
                  /\ ret.merchant = <<"S", "t", "a", "r", "b", "u", "c",
                                      "k", "s">>
                  /\ ret.limit = 100

\* C20 happens: Show me all Starbucks purchases was parsed, the merchant is
\* kept and the limit is 100.
C20_Witness ==
    /\ ParseRan
    /\ args.query = <<"S", "h", "o", "w", " ", "m", "e", " ", "a", "l", "l",
                      " ", "S", "t", "a", "r", "b", "u", "c", "k", "s", " ",
                      "p", "u", "r", "c", "h", "a", "s", "e", "s">>
    /\ ret.merchant = <<"S", "t", "a", "r", "b", "u", "c", "k", "s">>
    /\ ret.limit = 100

---------------------------------------------------------------------------
(* Properties of whole prompts: the classifier and the extractor together. *)

\* The entry point the chat client went on to for the prompt, if any.
ChatIntent ==
    IF \E i \in 1..Len(invoked) : invoked[i].fn = "get_transaction_summary"
    THEN "summary"
    ELSE "search"

\* C21 as stated: for What did I spend on gas last month? the intent is
\* summary, the category is gas and date_from is today minus 30 days.
C21_GasLastMonthIsSummary ==
    (ChatRan /\ args.prompt = <<"W", "h", "a", "t", " ", "d", "i", "d", " ",
                                "I", " ", "s", "p", "e", "n", "d", " ", "o",
                                "n", " ", "g", "a", "s", " ", "l", "a", "s",
                                "t", " ", "m", "o", "n", "t", "h",
                                "?">>) =>
        LET params == parse_natural_language(args.prompt, args.today)
        IN  /\ determine_query_type(args.prompt) = "summary"
            /\ ChatIntent = "summary"
            /\ "category" \in DOMAIN params
            /\ params.category = <<"g", "a", "s">>
            /\ "date_from" \in DOMAIN params
            /\ params.date_from = strftime(MinusDays(args.today, 30))

\* C22: for Find grocery spending over $50 the intent is summary, and the
\* extractor gives no merchant and no location, category groceries,
\* amount_min 50 and limit 10.
C22_GrocerySpendingIsSummary ==
    (ChatRan /\ args.prompt = <<"F", "i", "n", "d", " ", "g", "r", "o", "c",
                                "e", "r", "y", " ", "s", "p", "e", "n", "d",
                                "i", "n", "g", " ", "o", "v", "e", "r", " ",
                                "$", "5", "0">>) =>
        LET params == parse_natural_language(args.prompt, args.today)
        IN  /\ determine_query_type(args.prompt) = "summary"
            /\ ChatIntent = "summary"
            /\ "merchant" \notin DOMAIN params
            /\ "location" \notin DOMAIN params
            /\ "category" \in DOMAIN params
            /\ params.category = <<"g", "r", "o", "c", "e", "r", "i", "e",
                                   "s">>
            /\ "amount_min" \in DOMAIN params
            /\ params.amount_min = 50
            /\ params.limit = 10

\* C22 happens: the prompt was handled and the summary was asked for the
\* category groceries.
C22_Witness ==
    /\ ChatRan
    /\ args.prompt = <<"F", "i", "n", "d", " ", "g", "r", "o", "c", "e",
                       "r", "y", " ", "s", "p", "e", "n", "d", "i", "n",
                       "g", " ", "o", "v", "e", "r", " ", "$", "5", "0">>
    /\ Len(invoked) = 3
    /\ invoked[3].fn = "get_transaction_summary"
    /\ invoked[3].args.category = <<"g", "r", "o", "c", "e", "r", "i", "e",
                                    "s">>

PipelineRan == pc = "returned" /\ fn = "process_text"

\* C23: for the empty text the intent is search, the extractor gives the
\* limit 10 and nothing else, the Filter Model handed to search_transactions
\* has no filter set, and the query sent to the backend, when one can be
\* sent, is match_all with size 10.
C23_EmptyTextIsUnconstrainedSearch ==
    (PipelineRan /\ args.prompt = <<>>) =>
        /\ determine_query_type(args.prompt) = "search"
        /\ parse_natural_language(args.prompt, args.today) = ("limit" :> 10)
        /\ Len(invoked) = 3
        /\ invoked[3].fn = "search_transactions"
        /\ \A name \in FilterNames : ~IsSet(invoked[3].args, name)
        /\ invoked[3].args.limit = Some(10)
        /\ Len(esLog) <= 1
        /\ \A k \in 1..Len(esLog) :
            /\ esLog[k].body.query = [match_all |-> <<>>]
            /\ esLog[k].body.size = 10

\* C23 happens: the empty text went through, and the backend was asked for
\* every transaction and answered.
C23_Witness ==
    /\ PipelineRan
    /\ args.prompt = <<>>
    /\ Len(esLog) = 1
    /\ "match_all" \in DOMAIN esLog[1].body.query
    /\ "text" \in DOMAIN ret
    /\ ret.text # "Error processing query"

---------------------------------------------------------------------------
(* Properties of parse_natural_language as a whole. *)

\* The fields of the Filter Model other than the limit.
FilterFieldNames == {FilterFields[i] : i \in 1..Len(FilterFields)}

\* A rule of the field matches the text.
RuleMatches(field, text) ==
    CASE field = "merchant" ->
            \E i \in 1..Len(merchants) : OccursIn(merchants[i], text)
      [] field = "category" -> KeywordsIn(text) # {}
      [] field = "location" ->
            \E i \in 1..Len(locations) : OccursIn(locations[i], text)
      [] field = "amount_min" -> FirstPhrase(text) \in {1, 2, 3, 7, 8}
      [] field = "amount_max" -> FirstPhrase(text) \in {4, 5, 6, 7, 8}
      [] field = "date_from" ->
            HasRelativePhrase(text) \/ MonthsNamed(text) # {}
      [] field = "date_to" -> MonthsNamed(text) # {}
      [] field = "account_type" ->
            \E word \in {<<"c", "h", "e", "c", "k", "i", "n", "g">>,
                         <<"s", "a", "v", "i", "n", "g", "s">>,
                         <<"c", "r", "e", "d", "i", "t">>} : OccursIn(word,
                           text)
      [] OTHER -> FALSE

\* C24: parse_natural_language raises for no text; what it returns has a
\* limit, has a filter field exactly when a rule of that field matches the
\* lower-cased text, has no other key, and the chat bot's
\* conversation_history is as it was.
C24_ExtractionNeverRaises ==
    ParseRan =>
        /\ ~raised
        /\ "limit" \in DOMAIN ret
        /\ DOMAIN ret \subseteq FilterFieldNames \cup {"limit"}
        /\ \A field \in FilterFieldNames :
            field \in DOMAIN ret <=> RuleMatches(field, lower(args.query))
        /\ conversation_history = <<>>

\* C24 happens: a text no rule matches gave the limit and nothing else.
C24_Witness ==
    /\ ParseRan
    /\ args.query = <<"p", "l", "e", "a", "s", "e">>
    /\ DOMAIN ret = {"limit"}
    /\ ~raised

BothCasesRan == pc = "returned" /\ fn = "both_cases"

\* The two characters are one letter, in whatever case, or one character.
SameLetter(c, d) ==
    \/ c = d
    \/ \E i \in 1..26 : {c, d} = {LowerCase[i], UpperCase[i]}

\* The two texts differ in the case of letters at most.
SameButCase(a, b) ==
    /\ Len(a) = Len(b)
    /\ \A i \in 1..Len(a) : SameLetter(a[i], b[i])

---------------------------------------------------------------------------
(* Properties of the debug echo of search_transactions. *)

SearchSucceeded == SearchRan /\ ~raised /\ ret.success

\* The echo holds the non-null fields of the Filter Model, with their
\* values, and nothing else.
EchoIsNonNullFields ==
    LET echo == ret.query_info.search_params
    IN  /\ DOMAIN echo = {f \in DOMAIN args : ~IsNone(args[f])}
        /\ \A f \in DOMAIN echo : echo[f] = Val(args[f])

\* C26 as stated: when the search succeeds the echo holds exactly the
\* non-null fields, the Filter Model built from the echo is the one given,
\* and it compiles to the query that was sent.
C26_EchoRebuildsFilterModel ==
    SearchSucceeded =>
        LET rebuilt == FromDict(ret.query_info.search_params)
        IN  /\ EchoIsNonNullFields
            /\ rebuilt = args
            /\ SearchQuery(rebuilt) = ret.query_info.elasticsearch_query

\* C26, amended: when the search succeeds the echo holds exactly the
\* non-null fields; the Filter Model built from the echo is the one given
\* when its limit is not None, and the one given with the default limit 10
\* when it is; either way it compiles to the query that was sent and
\* echoed, and to the same request.
C26_EchoRebuildsUpToDefaultLimit ==
    SearchSucceeded =>
        LET rebuilt == FromDict(ret.query_info.search_params)
        IN  /\ EchoIsNonNullFields
            /\ rebuilt = IF IsNone(args.limit)
                         THEN [args EXCEPT !.limit = Some(10)]
                         ELSE args
            /\ Len(esLog) = 1
            /\ ret.query_info.elasticsearch_query = esLog[1].body.query
            /\ SearchQuery(rebuilt) = esLog[1].body.query
            /\ SearchRequest(rebuilt) = esLog[1]

\* C26 happens: a search with a merchant and a limit of None succeeded;
\* the echo holds the merchant alone and the rebuilt model has limit 10.
C26_Witness ==
    /\ SearchSucceeded
    /\ IsNone(args.limit)
    /\ DOMAIN ret.query_info.search_params = {"merchant"}
    /\ FromDict(ret.query_info.search_params).limit = Some(10)
    /\ ret.query_info.search_params.merchant = s_Starbucks

---------------------------------------------------------------------------
(* Properties of the relative date phrases. *)

\* The date_from the k-th test sets.
RelativeDateFrom(k, today) ==
    CASE k = 1 -> strftime(MinusDays(today, 7))
      [] k = 2 -> strftime(MinusDays(today, 30))
      [] k = 3 -> strftime(MinusDays(today, 90))
      [] k = 4 -> strftime(MinusDays(today, 365))
      [] k = 5 -> DateText(today.year, 1, 1)
      [] k = 6 -> DateText(today.year, today.month, 1)

\* C27: when the lower-cased text names no month, date_to is absent, and
\* date_from is that of the first test, in the order last/past week,
\* last/past month, last/past 3 months, last/past year, this year, this
\* month, of which the text holds a phrase: today minus 7, 30, 90 or 365
\* days, the 1st of January of this year, the 1st of this month; it is
\* absent when the text holds no such phrase.
C27_FirstRelativePhraseSetsDateFrom ==
    (ParseRan /\ MonthsNamed(lower(args.query)) = {}) =>
        LET text == lower(args.query)
            tests == {k \in 1..6 : HasPhraseOf(k, text)}
        IN  /\ "date_to" \notin DOMAIN ret
            /\ IF tests = {}
               THEN "date_from" \notin DOMAIN ret
               ELSE /\ "date_from" \in DOMAIN ret
                    /\ \E k \in tests :
                        /\ \A j \in tests : k <= j
                        /\ ret.date_from = RelativeDateFrom(k, args.today)

\* C27 happens: on 2024-03-05 the text says this month before last year
\* and date_from is 365 days back.
C27_Witness ==
    /\ ParseRan
    /\ args.query = <<"t", "h", "i", "s", " ", "m", "o", "n", "t", "h", " ",
                      "l", "a", "s", "t", " ", "y", "e", "a", "r">>
    /\ args.today = [year |-> 2024, month |-> 3, day |-> 5]
    /\ ret.date_from = <<"2", "0", "2", "3", "-", "0", "3", "-", "0", "6">>
    /\ "date_to" \notin DOMAIN ret

---------------------------------------------------------------------------
(* Properties of the LLM client. *)

\* C28 as stated: whatever tool call the language model returns - a
\* function that does not exist, arguments that are no JSON, arguments that
\* do not fit the parameters - execute_tool_call raises nothing, and gives
\* an error value when it does not give the tool's result.
C28_ToolCallNeverRaises ==
    ToolRan =>
        /\ ~raised
        /\ "json" \notin DOMAIN args.function.arguments =>
                "error" \in DOMAIN ret
        /\ args.function.name \notin EntryPoints => "error" \in DOMAIN ret

---------------------------------------------------------------------------
(* Properties of the chat history of the rule-based client. *)

\* C29 as stated, for the history: the message that follows a user message,
\* typed or added by an example button, is the assistant's response to it,
\* so that no two user messages are next to each other.
C29_UserMessageIsAnswered ==
    \A i \in 1..(Len(messages) - 1) :
        messages[i].role = "user" => messages[i + 1].role = "assistant"

---------------------------------------------------------------------------
(* Properties of the chat history of the LLM client. *)

\* The calls of process_and_display_query for the message at position i.
TimesProcessed(i) ==
    Cardinality({k \in 1..Len(processed) : processed[k] = i})

\* C30 as stated: between script runs, every user message of llm_messages
\* was processed exactly once and is followed by one assistant message,
\* which no other assistant message follows, and processing_last_message
\* is false.
C30_EachUserMessageAnsweredOnce ==
    LET llm_messages == session_state.llm_messages
    IN  /\ \A i \in 1..Len(llm_messages) :
            llm_messages[i].role = "user" =>
                /\ TimesProcessed(i) = 1
                /\ i < Len(llm_messages)
                /\ llm_messages[i + 1].role = "assistant"
        /\ \A i \in 1..(Len(llm_messages) - 1) :
            llm_messages[i].role = "assistant" =>
                llm_messages[i + 1].role = "user"
        /\ ~session_state.processing_last_message

===========================================================================
